---------------------------- MODULE Spec2Model ----------------------------
(***************************************************************************)
(* Verification model of the synthetic hospitality data generator          *)
(* (src/wyndham_notebook_02.py) and of the tables it hands to the curated  *)
(* layer.                                                                  *)
(*                                                                         *)
(* Fixed-point units used throughout:                                      *)
(*   occupancy            1/10000        (0.15 is 1500, "%.4f")            *)
(*   ADR before storing   1/1000 dollar                                    *)
(*   stored money         cents          ("%.2f")                          *)
(* A product  adr(cents) * occupancy_rate(1/10000)  is in 1/1000000 dollar.*)
(***************************************************************************)
EXTENDS Integers, Sequences, FiniteSets, TLC

VARIABLES
    \* ---- row arithmetic of generate_daily_performance and the RevPAR fix
    daily_performance_rows, \* rows of daily_performance_raw with their numeric fields
    row_locals,             \* per row: room_count and the loop's locals when it was built
    affected_log,           \* num_affected_rows reported by each run of the RevPAR fix
    revpar_check,           \* incorrect_revpar printed by validate_generated_data (-1: not run)
    \* ---- one property's while loop of generate_daily_performance over a year
    season_property,        \* the property tuple and its property_performance_factor
    season_year,            \* the calendar year of current_date
    season_day,             \* current_date as a day of that year (0: loop not started)
    season_row,             \* the row generated last
    month_revpar,           \* per month: sum of the stored revpar (cents)
    \* ---- generate_market_events and the event lookup of generate_daily_performance
    markets,                \* rows of SELECT DISTINCT market_id, city, region
    market_i,               \* position of the for loop over markets
    current_date,           \* current_date of the while loop
    events,                 \* the list of event dicts built so far
    event_id_counter,
    event_impact,           \* lines 642-649 for the (market_id, date) looked up last
    \* ---- generate_properties_master
    config_brands,          \* config['data_scope']['brands']
    pcP,                    \* position in generate_properties_master
    region_idx,             \* position of the for loop in regional_distribution.items()
    properties_created,     \* loop counter of the current region
    property_id_counter,    \* sequence number of the next property id
    properties,             \* the list of property dicts built so far
    errors_caught,          \* iterations that ended in the except branch
    properties_master_raw,  \* main.wyndham_staging.properties_master_raw
    \* ---- the notebook's cells from market events to the curated load
    start_date, end_date,   \* gen.start_date, gen.end_date (day numbers)
    pc,                     \* the cell that runs next, "done", or where a run failed
    rerun,                  \* the notebook has been started a second time
    existing,               \* staging tables that exist in the catalog
    market_events_raw,      \* main.wyndham_staging.market_events_raw
    perf_i,                 \* generate_daily_performance: index of the next property
    performance_data,       \* generate_daily_performance: the row buffer
    daily_performance_raw,  \* main.wyndham_staging.daily_performance_raw
    batch_start,            \* generate_competitive_intelligence: start of the next market batch
    competitive_intelligence_raw,
    sample_performance,     \* generate_realistic_guest_transactions: the sampled property-nights
    txn_i,                  \* index of the next sampled property-night
    transactions,           \* the transaction buffer
    transaction_counter,
    batch_counter,
    guest_transactions_raw, \* main.wyndham_staging.guest_transactions_raw
    curated                 \* the five tables of main.wyndham_curated

seasonVars == <<season_property, season_year, season_day, season_row, month_revpar>>

eventVars == <<markets, market_i, current_date, events, event_id_counter, event_impact>>

rowVars == <<daily_performance_rows, row_locals, affected_log, revpar_check,
             seasonVars, eventVars>>

propVars == <<config_brands, pcP, region_idx, properties_created,
              property_id_counter, properties, errors_caught,
              properties_master_raw>>

pipeVars == <<start_date, end_date, pc, rerun, existing, market_events_raw,
              perf_i, performance_data, daily_performance_raw, batch_start,
              competitive_intelligence_raw, sample_performance, txn_i,
              transactions, transaction_counter, batch_counter,
              guest_transactions_raw, curated>>

vars == <<rowVars, propVars, pipeVars>>

-----------------------------------------------------------------------------
(* Arithmetic helpers *)

Abs(x) == IF x < 0 THEN -x ELSE x

\* n / d rounded to the nearest integer, halves up (n >= 0, d > 0): the
\* rounding of "%.2f" / "%.4f" and of SQL ROUND on the values used here
\* (the sample inputs below avoid exact halves in the generator's formats).
RoundDiv(n, d) == (2 * n + d) \div (2 * d)

-----------------------------------------------------------------------------
(* generate_daily_performance: the arithmetic of one (property, date) row *)

OccMin == 1500
OccMax == 9500

\* lines 658-662: clamp of the pre-clamp occupancy
ClampOccupancy(daily_occupancy) ==
    IF daily_occupancy < OccMin THEN OccMin
    ELSE IF daily_occupancy > OccMax THEN OccMax
    ELSE daily_occupancy

\* the truncation applied to the occupancy before the clamp
RoomsSoldUnclamped(daily_occupancy, room_count) ==
    (daily_occupancy * room_count) \div 10000

\* line 665: rooms_sold = int(daily_occupancy * room_count)
RoomsSold(daily_occupancy, room_count) ==
    (ClampOccupancy(daily_occupancy) * room_count) \div 10000

\* lines 672-675 with the comparisons > 0.85 and < 0.50 made inclusive
RepriceTenthsInclusive(rooms_sold, room_count) ==
    IF rooms_sold * 100 >= 85 * room_count THEN 11
    ELSE IF rooms_sold * 100 <= 50 * room_count THEN 9
    ELSE 10

\* lines 672-675: demand-based pricing factor in tenths, decided on
\* actual_occupancy = rooms_sold / room_count
RepriceTenths(rooms_sold, room_count) ==
    IF rooms_sold * 100 > 85 * room_count THEN 11
    ELSE IF rooms_sold * 100 < 50 * room_count THEN 9
    ELSE 10

\* lines 669-679: daily_adr (1/1000 dollar) from the ADR of line 669 and the
\* noise factor adr_variation (in percent)
DailyAdr(adr_669, adr_variation, rooms_sold, room_count) ==
    (((adr_669 * RepriceTenths(rooms_sold, room_count)) \div 10) * adr_variation) \div 100

\* lines 665-683 and 714-721: the stored row
DailyRow(room_count, daily_occupancy, adr_669, adr_variation) ==
    LET rooms_sold == RoomsSold(daily_occupancy, room_count)
        daily_adr  == DailyAdr(adr_669, adr_variation, rooms_sold, room_count)
    IN  [ rooms_available |-> room_count,
          rooms_sold      |-> rooms_sold,
          \* float(f"{actual_occupancy:.4f}")
          occupancy_rate  |-> IF room_count > 0
                              THEN RoundDiv(rooms_sold * 10000, room_count)
                              ELSE 0,
          \* float(f"{daily_adr:.2f}")
          adr             |-> RoundDiv(daily_adr, 10),
          \* revpar = daily_adr * actual_occupancy, float(f"{revpar:.2f}")
          revpar          |-> RoundDiv(daily_adr * rooms_sold, room_count * 10) ]

\* milli * k / 1000 rounded to the nearest integer: a value in 1/1000 dollar
\* times a rate in percent, formatted with "%.2f" (in cents)
ScaleToCents(milli, k) ==
    (milli \div 1000) * k + RoundDiv((milli % 1000) * k, 1000)

\* lines 681-693 and 722-725: the revenue fields of the stored row (cents);
\* fb_rate and other_rate are the draws of random.uniform in percent
RevenueFields(rooms_sold, daily_adr, property_type, brand, fb_rate, other_rate) ==
    LET revenue_rooms == rooms_sold * daily_adr
        fb    == IF property_type \in {"Resort", "Urban"} /\ brand \in {"Wyndham", "Ramada"}
                 THEN fb_rate ELSE 0
        other == IF property_type = "Airport" THEN other_rate ELSE 0
    IN  [ revenue_rooms |-> RoundDiv(revenue_rooms, 10),
          revenue_fb    |-> IF revenue_rooms > 0 /\ fb > 0
                            THEN ScaleToCents(revenue_rooms, fb) ELSE 0,
          revenue_other |-> IF revenue_rooms > 0 /\ other > 0
                            THEN ScaleToCents(revenue_rooms, other) ELSE 0,
          revenue_total |-> ScaleToCents(revenue_rooms, 100 + fb + other) ]

-----------------------------------------------------------------------------
(* The RevPAR fix: UPDATE daily_performance_raw SET revpar = ROUND(adr *   *)
(* occupancy_rate, 2) WHERE ABS(revpar - (adr * occupancy_rate)) > 0.01    *)

\* 0.01 dollar in 1/1000000 dollar
RevparTolerance == 10000

\* revpar - adr * occupancy_rate, in 1/1000000 dollar
RevparGap(r) == r.revpar * 10000 - r.adr * r.occupancy_rate

NeedsRepairLoose(r) == Abs(RevparGap(r)) > 10 * RevparTolerance

NeedsRepairAlways(r) == TRUE

\* the WHERE clause
NeedsRepair(r) == Abs(RevparGap(r)) > RevparTolerance

\* the SET clause: ROUND(adr * occupancy_rate, 2), in cents
RepairedRevpar(r) == RoundDiv(r.adr * r.occupancy_rate, 10000)

RevparFixRow(r) ==
    IF NeedsRepair(r) THEN [r EXCEPT !.revpar = RepairedRevpar(r)] ELSE r

RevparFixTable(t) == [i \in DOMAIN t |-> RevparFixRow(t[i])]

NumAffected(t) == Cardinality({i \in DOMAIN t : NeedsRepair(t[i])})

-----------------------------------------------------------------------------
(* Specification SpecRows: rows are generated, then the fix runs (and may  *)
(* be run again), then validate_generated_data counts the bad rows.        *)

MaxRows == 2
MaxFixRuns == 2

\* room counts inside brand room ranges (60..350), pre-clamp occupancies
\* below, inside and above the clamp, ADR values of line 669 and noise
\* factors; on these inputs the integer arithmetic above agrees with the
\* binary floating point of the code.
RoomCountSamples == {61, 100, 350}
OccupancySamples == {1000, 5010, 8510, 12000}
AdrSamples == {123000, 312000}
AdrVariationSamples == {97, 104}

\* brand, property type and ancillary revenue rates of a property with
\* rc rooms: the brand's room_range contains rc
RevenueCaseSamples(rc) ==
    IF rc = 61 THEN
        { [brand |-> "Super 8", property_type |-> "Airport", fb_rate |-> 20, other_rate |-> 8] }
    ELSE IF rc = 100 THEN
        { [brand |-> "Days Inn", property_type |-> "Highway", fb_rate |-> 15, other_rate |-> 12] }
    ELSE
        { [brand |-> "Wyndham", property_type |-> "Urban", fb_rate |-> 15, other_rate |-> 8] }

IdleSeason ==
    /\ season_property = <<>>
    /\ season_year = 0
    /\ season_day = 0
    /\ season_row = <<>>
    /\ month_revpar = <<>>

\* generate_market_events not started, no event looked up
IdleEvents ==
    /\ markets = <<>>
    /\ market_i = 0
    /\ current_date = 0
    /\ events = <<>>
    /\ event_id_counter = 0
    /\ event_impact = <<>>

IdleRows ==
    /\ daily_performance_rows = <<>>
    /\ row_locals = <<>>
    /\ affected_log = <<>>
    /\ revpar_check = -1
    /\ IdleSeason
    /\ IdleEvents

\* generate_properties_master not started, nothing configured
IdleProps ==
    /\ config_brands = {}
    /\ pcP = "idle"
    /\ region_idx = 0
    /\ properties_created = 0
    /\ property_id_counter = 0
    /\ properties = <<>>
    /\ errors_caught = 0
    /\ properties_master_raw = {}

\* the cells after generate_properties_master not started
IdlePipeline ==
    /\ start_date = 0
    /\ end_date = 0
    /\ pc = "idle"
    /\ rerun = FALSE
    /\ existing = {}
    /\ market_events_raw = {}
    /\ perf_i = 0
    /\ performance_data = <<>>
    /\ daily_performance_raw = <<>>
    /\ batch_start = 0
    /\ competitive_intelligence_raw = <<>>
    /\ sample_performance = <<>>
    /\ txn_i = 0
    /\ transactions = <<>>
    /\ transaction_counter = 0
    /\ batch_counter = 0
    /\ guest_transactions_raw = <<>>
    /\ curated = <<>>

InitRows == IdleRows /\ IdleProps /\ IdlePipeline

\* one iteration of the while loop of lines 637-735 followed by the write
GenerateDailyRow ==
    /\ affected_log = <<>>
    /\ Len(daily_performance_rows) < MaxRows
    /\ \E rc \in RoomCountSamples, occ \in OccupancySamples,
          a \in AdrSamples, nz \in AdrVariationSamples :
          \E c \in RevenueCaseSamples(rc) :
            LET rooms_sold == RoomsSold(occ, rc)
                daily_adr  == DailyAdr(a, nz, rooms_sold, rc)
            IN  /\ daily_performance_rows' =
                       Append(daily_performance_rows,
                              DailyRow(rc, occ, a, nz) @@
                              RevenueFields(rooms_sold, daily_adr, c.property_type,
                                            c.brand, c.fb_rate, c.other_rate))
                /\ row_locals' =
                       Append(row_locals,
                              [room_count |-> rc, daily_occupancy |-> occ,
                               adr_669 |-> a, adr_variation |-> nz,
                               daily_adr |-> daily_adr] @@ c)
    /\ UNCHANGED <<affected_log, revpar_check, seasonVars, eventVars, propVars, pipeVars>>

\* the %sql cell of lines 1148-1152
RevparFix ==
    /\ Len(daily_performance_rows) > 0
    /\ Len(affected_log) < MaxFixRuns
    /\ revpar_check = -1
    /\ daily_performance_rows' = RevparFixTable(daily_performance_rows)
    /\ affected_log' = Append(affected_log, NumAffected(daily_performance_rows))
    /\ UNCHANGED <<row_locals, revpar_check, seasonVars, eventVars, propVars, pipeVars>>

\* lines 1193-1198: WHERE ABS(revpar - (adr * occupancy_rate)) > 0.01
IncorrectRevpar(r) == Abs(r.revpar * 10000 - r.adr * r.occupancy_rate) > RevparTolerance

\* lines 1193-1200
ValidateRevpar ==
    /\ Len(daily_performance_rows) > 0
    /\ revpar_check = -1
    /\ revpar_check' = Cardinality({i \in DOMAIN daily_performance_rows :
                                      IncorrectRevpar(daily_performance_rows[i])})
    /\ UNCHANGED <<daily_performance_rows, row_locals, affected_log, seasonVars, eventVars, propVars, pipeVars>>

NextRows == GenerateDailyRow \/ RevparFix \/ ValidateRevpar

SpecRows == InitRows /\ [][NextRows]_vars

-----------------------------------------------------------------------------
(* HospitalityDataGenerator reference data (lines 61-158, 210-220) *)

\* brand_profiles: adr_base (dollars) and room_range of each brand
brand_profiles ==
    [ b \in {"Super 8", "Travelodge", "Days Inn", "Howard Johnson",
             "Baymont", "Ramada", "Wingate", "Wyndham"} |->
        CASE b = "Super 8"        -> [adr_base |-> 85, min_rooms |-> 60,  max_rooms |-> 120]
          [] b = "Travelodge"     -> [adr_base |-> 90, min_rooms |-> 70,  max_rooms |-> 140]
          [] b = "Days Inn"       -> [adr_base |-> 95, min_rooms |-> 80,  max_rooms |-> 160]
          [] b = "Howard Johnson" -> [adr_base |-> 105, min_rooms |-> 90,  max_rooms |-> 180]
          [] b = "Baymont"        -> [adr_base |-> 115, min_rooms |-> 100, max_rooms |-> 200]
          [] b = "Ramada"         -> [adr_base |-> 125, min_rooms |-> 110, max_rooms |-> 220]
          [] b = "Wingate"        -> [adr_base |-> 140, min_rooms |-> 120, max_rooms |-> 250]
          [] b = "Wyndham"        -> [adr_base |-> 160, min_rooms |-> 150, max_rooms |-> 350] ]

\* brand_codes of generate_property_id
brand_codes ==
    [ b \in DOMAIN brand_profiles |->
        CASE b = "Super 8"        -> "SUP8"
          [] b = "Travelodge"     -> "TRAV"
          [] b = "Days Inn"       -> "DAYS"
          [] b = "Howard Johnson" -> "HOJO"
          [] b = "Baymont"        -> "BAYMT"
          [] b = "Ramada"         -> "RAMA"
          [] b = "Wingate"        -> "WING"
          [] b = "Wyndham"        -> "WYND" ]

\* regional_distribution of generate_properties_master, in dict order
regional_distribution ==
    << [region |-> "Northeast",      target_count |-> 140],
       [region |-> "Southeast",      target_count |-> 160],
       [region |-> "West",           target_count |-> 130],
       [region |-> "Southwest",      target_count |-> 110],
       [region |-> "Midwest",        target_count |-> 120],
       [region |-> "Central Canada", target_count |-> 80],
       [region |-> "Eastern Canada", target_count |-> 80],
       [region |-> "Western Canada", target_count |-> 80] >>

\* config['data_scope']['property_count'] written by notebook 01
property_count == 900

\* region_codes of generate_property_id
region_codes ==
    [ r \in {regional_distribution[i].region : i \in DOMAIN regional_distribution} |->
        CASE r = "Northeast"      -> "NE"
          [] r = "Southeast"      -> "SE"
          [] r = "Midwest"        -> "MW"
          [] r = "Southwest"      -> "SW"
          [] r = "West"           -> "W"
          [] r = "Central Canada" -> "CC"
          [] r = "Eastern Canada" -> "EC"
          [] r = "Western Canada" -> "WC" ]

\* cities_by_region, two cities of each of the first two regions; norm is
\* city.replace(' ', '').upper()
cities_by_region ==
    [ r \in {"Northeast", "Southeast"} |->
        IF r = "Northeast"
        THEN { [city |-> "New York", norm |-> "NEWYORK",
                market_tier |-> "Primary", property_type |-> "Urban"],
               [city |-> "Waterbury", norm |-> "WATERBURY",
                market_tier |-> "Tertiary", property_type |-> "Highway"] }
        ELSE { [city |-> "Orlando", norm |-> "ORLANDO",
                market_tier |-> "Primary", property_type |-> "Resort"] } ]

\* the decimal digits of n >= 0, most significant first
RECURSIVE Digits(_)
Digits(n) == IF n < 10 THEN <<n>> ELSE Append(Digits(n \div 10), n % 10)

\* f"{sequence:03d}": the digits padded with zeros to at least three
Format03d(sequence) ==
    LET d == Digits(sequence)
    IN  IF Len(d) = 1 THEN <<0, 0>> \o d
        ELSE IF Len(d) = 2 THEN <<0>> \o d
        ELSE d

\* the number a digit string denotes
RECURSIVE DigitsValue(_)
DigitsValue(d) ==
    IF d = <<>> THEN 0 ELSE 10 * DigitsValue(SubSeq(d, 1, Len(d) - 1)) + d[Len(d)]

\* the id with every property missing its sequence number
generate_property_idWithoutSequence(brand, region, sequence) ==
    <<"WYN", brand_codes[brand], region_codes[region], <<0, 0, 0>> >>

\* generate_property_id: f"WYN_{brand_codes[brand]}_{region_codes[region]}_{sequence:03d}",
\* the four parts that the underscores separate
generate_property_id(brand, region, sequence) ==
    <<"WYN", brand_codes[brand], region_codes[region], Format03d(sequence)>>

\* lines 85-157: every city of cities_by_region with its region; norm is
\* city.replace(' ', '').upper() of line 286
all_cities ==
    { [region |-> "Northeast", city |-> "New York", norm |-> "NEWYORK",
       market_tier |-> "Primary", property_type |-> "Urban"],
      [region |-> "Northeast", city |-> "Boston", norm |-> "BOSTON",
       market_tier |-> "Primary", property_type |-> "Urban"],
      [region |-> "Northeast", city |-> "Philadelphia", norm |-> "PHILADELPHIA",
       market_tier |-> "Primary", property_type |-> "Urban"],
      [region |-> "Northeast", city |-> "Newark", norm |-> "NEWARK",
       market_tier |-> "Primary", property_type |-> "Airport"],
      [region |-> "Northeast", city |-> "Hartford", norm |-> "HARTFORD",
       market_tier |-> "Secondary", property_type |-> "Urban"],
      [region |-> "Northeast", city |-> "Albany", norm |-> "ALBANY",
       market_tier |-> "Secondary", property_type |-> "Urban"],
      [region |-> "Northeast", city |-> "Syracuse", norm |-> "SYRACUSE",
       market_tier |-> "Secondary", property_type |-> "Suburban"],
      [region |-> "Northeast", city |-> "Worcester", norm |-> "WORCESTER",
       market_tier |-> "Tertiary", property_type |-> "Suburban"],
      [region |-> "Northeast", city |-> "Waterbury", norm |-> "WATERBURY",
       market_tier |-> "Tertiary", property_type |-> "Highway"],
      [region |-> "Southeast", city |-> "Atlanta", norm |-> "ATLANTA",
       market_tier |-> "Primary", property_type |-> "Urban"],
      [region |-> "Southeast", city |-> "Miami", norm |-> "MIAMI",
       market_tier |-> "Primary", property_type |-> "Urban"],
      [region |-> "Southeast", city |-> "Orlando", norm |-> "ORLANDO",
       market_tier |-> "Primary", property_type |-> "Resort"],
      [region |-> "Southeast", city |-> "Charlotte", norm |-> "CHARLOTTE",
       market_tier |-> "Primary", property_type |-> "Urban"],
      [region |-> "Southeast", city |-> "Tampa", norm |-> "TAMPA",
       market_tier |-> "Secondary", property_type |-> "Urban"],
      [region |-> "Southeast", city |-> "Jacksonville", norm |-> "JACKSONVILLE",
       market_tier |-> "Secondary", property_type |-> "Urban"],
      [region |-> "Southeast", city |-> "Savannah", norm |-> "SAVANNAH",
       market_tier |-> "Secondary", property_type |-> "Resort"],
      [region |-> "Southeast", city |-> "Asheville", norm |-> "ASHEVILLE",
       market_tier |-> "Tertiary", property_type |-> "Resort"],
      [region |-> "Southeast", city |-> "Gainesville", norm |-> "GAINESVILLE",
       market_tier |-> "Tertiary", property_type |-> "Suburban"],
      [region |-> "Midwest", city |-> "Chicago", norm |-> "CHICAGO",
       market_tier |-> "Primary", property_type |-> "Urban"],
      [region |-> "Midwest", city |-> "Detroit", norm |-> "DETROIT",
       market_tier |-> "Primary", property_type |-> "Urban"],
      [region |-> "Midwest", city |-> "Minneapolis", norm |-> "MINNEAPOLIS",
       market_tier |-> "Primary", property_type |-> "Urban"],
      [region |-> "Midwest", city |-> "Milwaukee", norm |-> "MILWAUKEE",
       market_tier |-> "Secondary", property_type |-> "Urban"],
      [region |-> "Midwest", city |-> "Indianapolis", norm |-> "INDIANAPOLIS",
       market_tier |-> "Secondary", property_type |-> "Urban"],
      [region |-> "Midwest", city |-> "Columbus", norm |-> "COLUMBUS",
       market_tier |-> "Secondary", property_type |-> "Urban"],
      [region |-> "Midwest", city |-> "Grand Rapids", norm |-> "GRANDRAPIDS",
       market_tier |-> "Tertiary", property_type |-> "Suburban"],
      [region |-> "Midwest", city |-> "Madison", norm |-> "MADISON",
       market_tier |-> "Tertiary", property_type |-> "Suburban"],
      [region |-> "Southwest", city |-> "Las Vegas", norm |-> "LASVEGAS",
       market_tier |-> "Primary", property_type |-> "Resort"],
      [region |-> "Southwest", city |-> "Phoenix", norm |-> "PHOENIX",
       market_tier |-> "Primary", property_type |-> "Urban"],
      [region |-> "Southwest", city |-> "Denver", norm |-> "DENVER",
       market_tier |-> "Primary", property_type |-> "Urban"],
      [region |-> "Southwest", city |-> "San Antonio", norm |-> "SANANTONIO",
       market_tier |-> "Primary", property_type |-> "Urban"],
      [region |-> "Southwest", city |-> "Albuquerque", norm |-> "ALBUQUERQUE",
       market_tier |-> "Secondary", property_type |-> "Urban"],
      [region |-> "Southwest", city |-> "Tucson", norm |-> "TUCSON",
       market_tier |-> "Secondary", property_type |-> "Urban"],
      [region |-> "Southwest", city |-> "Colorado Springs", norm |-> "COLORADOSPRINGS",
       market_tier |-> "Tertiary", property_type |-> "Suburban"],
      [region |-> "Southwest", city |-> "Santa Fe", norm |-> "SANTAFE",
       market_tier |-> "Tertiary", property_type |-> "Resort"],
      [region |-> "West", city |-> "Los Angeles", norm |-> "LOSANGELES",
       market_tier |-> "Primary", property_type |-> "Urban"],
      [region |-> "West", city |-> "San Francisco", norm |-> "SANFRANCISCO",
       market_tier |-> "Primary", property_type |-> "Urban"],
      [region |-> "West", city |-> "Seattle", norm |-> "SEATTLE",
       market_tier |-> "Primary", property_type |-> "Urban"],
      [region |-> "West", city |-> "San Diego", norm |-> "SANDIEGO",
       market_tier |-> "Primary", property_type |-> "Resort"],
      [region |-> "West", city |-> "Portland", norm |-> "PORTLAND",
       market_tier |-> "Secondary", property_type |-> "Urban"],
      [region |-> "West", city |-> "Sacramento", norm |-> "SACRAMENTO",
       market_tier |-> "Secondary", property_type |-> "Urban"],
      [region |-> "West", city |-> "Spokane", norm |-> "SPOKANE",
       market_tier |-> "Tertiary", property_type |-> "Suburban"],
      [region |-> "West", city |-> "Eugene", norm |-> "EUGENE",
       market_tier |-> "Tertiary", property_type |-> "Suburban"],
      [region |-> "Central Canada", city |-> "Toronto", norm |-> "TORONTO",
       market_tier |-> "Primary", property_type |-> "Urban"],
      [region |-> "Central Canada", city |-> "Ottawa", norm |-> "OTTAWA",
       market_tier |-> "Primary", property_type |-> "Urban"],
      [region |-> "Central Canada", city |-> "Winnipeg", norm |-> "WINNIPEG",
       market_tier |-> "Secondary", property_type |-> "Urban"],
      [region |-> "Central Canada", city |-> "London", norm |-> "LONDON",
       market_tier |-> "Tertiary", property_type |-> "Suburban"],
      [region |-> "Central Canada", city |-> "Thunder Bay", norm |-> "THUNDERBAY",
       market_tier |-> "Tertiary", property_type |-> "Highway"],
      [region |-> "Eastern Canada", city |-> "Montreal", norm |-> "MONTREAL",
       market_tier |-> "Primary", property_type |-> "Urban"],
      [region |-> "Eastern Canada", city |-> "Quebec City", norm |-> "QUEBECCITY",
       market_tier |-> "Secondary", property_type |-> "Urban"],
      [region |-> "Eastern Canada", city |-> "Halifax", norm |-> "HALIFAX",
       market_tier |-> "Secondary", property_type |-> "Urban"],
      [region |-> "Eastern Canada", city |-> "Fredericton", norm |-> "FREDERICTON",
       market_tier |-> "Tertiary", property_type |-> "Suburban"],
      [region |-> "Western Canada", city |-> "Vancouver", norm |-> "VANCOUVER",
       market_tier |-> "Primary", property_type |-> "Urban"],
      [region |-> "Western Canada", city |-> "Calgary", norm |-> "CALGARY",
       market_tier |-> "Primary", property_type |-> "Urban"],
      [region |-> "Western Canada", city |-> "Edmonton", norm |-> "EDMONTON",
       market_tier |-> "Secondary", property_type |-> "Urban"],
      [region |-> "Western Canada", city |-> "Victoria", norm |-> "VICTORIA",
       market_tier |-> "Tertiary", property_type |-> "Resort"],
      [region |-> "Western Canada", city |-> "Saskatoon", norm |-> "SASKATOON",
       market_tier |-> "Tertiary", property_type |-> "Suburban"] }

\* a market_id that leaves the city out
MarketIdWithoutCity(c) == <<"", c.market_tier>>

\* line 286: f"{city.replace(' ', '').upper()}_{market_tier}"
MarketId(c) == <<c.norm, c.market_tier>>

-----------------------------------------------------------------------------
(* generate_properties_master (lines 231-357) *)

\* The model runs the first NumModelRegions entries of regional_distribution
\* with the first region's target scaled down to MaxTarget and the others
\* to 1; the loop does not depend on the size of a target.
MaxTarget == 2
MaxErrors == 2

ModelRegions == SubSeq(regional_distribution, 1, 2)

TargetCount(i) == IF i = 1 THEN MaxTarget ELSE 1

LoopContinuesOffByOne(created, target_count) == created <= target_count

\* the loop left one iteration early
LoopContinuesOneShort(created, target_count) == created + 1 < target_count

\* line 250: while properties_created < target_count
LoopContinues(created, target_count) == created < target_count

\* lines 260-263: the values random.randint can return in the branch of
\* the smaller half (random.random() < 0.6) and of the larger half
RandintBranch(min_rooms, max_rooms, smaller) ==
    IF smaller
    THEN min_rooms .. (min_rooms + (max_rooms - min_rooms) \div 2)
    ELSE (min_rooms + (max_rooms - min_rooms) \div 2) .. max_rooms

\* the larger half drawn up to half a range past max_rooms
RoomCountChoicesPastMax(brand) ==
    LET lo  == brand_profiles[brand].min_rooms
        hi  == brand_profiles[brand].max_rooms
        mid == lo + (hi - lo) \div 2
    IN  {lo, mid} \cup {mid, hi + (hi - lo) \div 2}

\* lines 260-263: the two randint ranges; the model draws their end points
RoomCountChoices(brand) ==
    LET lo  == brand_profiles[brand].min_rooms
        hi  == brand_profiles[brand].max_rooms
        mid == lo + (hi - lo) \div 2
    IN  {lo, mid} \cup {mid, hi}

\* lines 314-330: the property dict (fields the later stages read)
PropertyData(c, brand, region, room_count, sequence) ==
    [ property_id   |-> generate_property_id(brand, region, sequence),
      brand         |-> brand,
      region        |-> region,
      market_tier   |-> c.market_tier,
      property_type |-> c.property_type,
      room_count    |-> room_count,
      city          |-> c.city,
      market_id     |-> MarketId(c) ]

\* config['data_scope']['brands'] as notebook 01 writes it, cut down to two
\* brands, and two malformed configurations naming a brand that
\* brand_profiles does not have
ConfigBrandChoices ==
    { {"Super 8", "Wyndham"}, {"Super 8", "Motel 6"}, {"Motel 6"} }

InitProps ==
    /\ IdleRows
    /\ IdlePipeline
    /\ config_brands \in ConfigBrandChoices
    /\ pcP = "loop"
    /\ region_idx = 1
    /\ properties_created = 0
    /\ property_id_counter = 1
    /\ properties = <<>>
    /\ errors_caught = 0
    /\ properties_master_raw = {}

\* one iteration of the while loop that reaches line 334
GenerateProperty ==
    /\ pcP = "loop"
    /\ region_idx <= Len(ModelRegions)
    /\ LoopContinues(properties_created, TargetCount(region_idx))
    /\ \E c \in cities_by_region[ModelRegions[region_idx].region],
          brand \in config_brands :
          /\ brand \in DOMAIN brand_profiles
          /\ \E room_count \in RoomCountChoices(brand) :
                properties' = Append(properties,
                    PropertyData(c, brand, ModelRegions[region_idx].region,
                                 room_count, property_id_counter))
    /\ properties_created' = properties_created + 1
    /\ property_id_counter' = property_id_counter + 1
    /\ UNCHANGED <<config_brands, pcP, region_idx, errors_caught,
                   properties_master_raw, rowVars, pipeVars>>

\* one iteration in which gen.brand_profiles[brand] raises KeyError: the
\* except branch of lines 336-339 prints and continues
GeneratePropertyRaises ==
    /\ pcP = "loop"
    /\ region_idx <= Len(ModelRegions)
    /\ LoopContinues(properties_created, TargetCount(region_idx))
    /\ \E brand \in config_brands : brand \notin DOMAIN brand_profiles
    /\ errors_caught < MaxErrors
    /\ errors_caught' = errors_caught + 1
    /\ UNCHANGED <<config_brands, pcP, region_idx, properties_created,
                   property_id_counter, properties, properties_master_raw,
                   rowVars, pipeVars>>

\* the while loop ends, the for loop moves to the next region (lines 244-249)
NextRegion ==
    /\ pcP = "loop"
    /\ region_idx <= Len(ModelRegions)
    /\ ~LoopContinues(properties_created, TargetCount(region_idx))
    /\ region_idx' = region_idx + 1
    /\ properties_created' = 0
    /\ pcP' = IF region_idx = Len(ModelRegions) THEN "write" ELSE "loop"
    /\ UNCHANGED <<config_brands, property_id_counter, properties,
                   errors_caught, properties_master_raw, rowVars, pipeVars>>

\* lines 342-352: createDataFrame and write in mode overwrite
WriteProperties ==
    /\ pcP = "write"
    /\ properties_master_raw' = {properties[i] : i \in DOMAIN properties}
    /\ pcP' = "done"
    /\ UNCHANGED <<config_brands, region_idx, properties_created,
                   property_id_counter, properties, errors_caught, rowVars, pipeVars>>

\* lines 354-357: the write raises, the function re-raises
WritePropertiesRaises ==
    /\ pcP = "write"
    /\ pcP' = "raised"
    /\ UNCHANGED <<config_brands, region_idx, properties_created,
                   property_id_counter, properties, errors_caught,
                   properties_master_raw, rowVars, pipeVars>>

NextProps ==
    \/ GenerateProperty
    \/ GeneratePropertyRaises
    \/ NextRegion
    \/ WriteProperties
    \/ WritePropertiesRaises

SpecProps == InitProps /\ [][NextProps]_vars

\* the interpreter runs the loop's next iteration, and the write after the
\* last one, as long as there is one to run
SpecPropsFair == SpecProps /\ WF_vars(NextProps)

-----------------------------------------------------------------------------
(* The notebook's cells in order: properties, market events, daily         *)
(* performance, competitive intelligence, guest transactions, RevPAR fix,  *)
(* curated load.  A cell that raises stops the run; the notebook may be    *)
(* run once more over the tables the first run left in the catalog.        *)

NumDays == 2
PerfBatchSize == 2      \* batch_size = 10000 of generate_daily_performance, scaled down
CiBatchSize == 1        \* batch_size = 5 markets of generate_competitive_intelligence, scaled down
SampleLimit == 1        \* LIMIT 50000 of the sample query, scaled down
TxnBatchSize == 6       \* the 10000 transactions per write, scaled down

propLocals == <<config_brands, pcP, region_idx, properties_created,
                property_id_counter, properties, errors_caught>>

\* Outputs of generate_properties_master for a distribution scaled to one or
\* two Northeast properties of brand Super 8 with 90 rooms: one in New York,
\* or one in New York and one in Waterbury.
PipelinePropertyTables ==
    LET ny == CHOOSE c \in cities_by_region["Northeast"] : c.city = "New York"
        wb == CHOOSE c \in cities_by_region["Northeast"] : c.city = "Waterbury"
    IN  { { PropertyData(ny, "Super 8", "Northeast", 90, 1) },
          { PropertyData(ny, "Super 8", "Northeast", 90, 1),
            PropertyData(wb, "Super 8", "Northeast", 90, 2) } }

\* (occupancy before the clamp, ADR of line 669, ADR noise) of the rows of
\* one property: 13 rooms sold and a RevPAR off by more than 0.01, or 63
\* rooms sold and a consistent RevPAR
PipelineRowSamples ==
    { [occ |-> 1000, adr |-> 312000, nz |-> 104],
      [occ |-> 7013, adr |-> 123000, nz |-> 97] }

\* rows of a table in the order collect() returns them: by sequence number
RECURSIVE InSequenceOrder(_)
InSequenceOrder(table) ==
    IF table = {} THEN <<>>
    ELSE LET first == CHOOSE p \in table :
                        \A q \in table : DigitsValue(p.property_id[4])
                                            <= DigitsValue(q.property_id[4])
         IN  <<first>> \o InSequenceOrder(table \ {first})

\* the alphabetical rank of a market_id among those of the model's cities
MarketRank(m) ==
    CASE m[1] = "NEWYORK" -> 1 [] m[1] = "ORLANDO" -> 2 [] m[1] = "WATERBURY" -> 3

\* SELECT DISTINCT market_id ... ORDER BY market_id
RECURSIVE OrderedMarkets(_)
OrderedMarkets(ms) ==
    IF ms = {} THEN <<>>
    ELSE LET first == CHOOSE m \in ms : \A n \in ms : MarketRank(m) <= MarketRank(n)
         IN  <<first>> \o OrderedMarkets(ms \ {first})

Markets == {p.market_id : p \in properties_master_raw}

\* lines 790-794: SELECT DISTINCT market_id, region, market_tier
CompetitiveMarketRows(table) ==
    { [market_id |-> p.market_id, region |-> p.region,
       market_tier |-> p.market_tier] : p \in table }

\* lines 377-380: SELECT DISTINCT market_id, city, region
EventMarketRows(table) ==
    { [market_id |-> p.market_id, city |-> p.city, region |-> p.region] :
      p \in table }

\* the dates the while loops of lines 398-446 visit: start_date + 7k <= end_date
WeekDates == {d \in start_date..end_date : (d - start_date) % 7 = 0}

\* lines 637-735: the rows of one property over the horizon
RECURSIVE PropertyDailyData(_, _, _)
PropertyDailyData(p, business_date, smp) ==
    IF business_date > end_date THEN <<>>
    ELSE << DailyRow(p.room_count, smp.occ, smp.adr, smp.nz) @@
            [property_id |-> p.property_id, business_date |-> business_date] >>
         \o PropertyDailyData(p, business_date + 1, smp)

InitPipeline ==
    /\ IdleRows
    /\ IdleProps
    /\ start_date = 1
    /\ end_date \in 0..NumDays
    /\ pc = "properties"
    /\ rerun = FALSE
    /\ existing = {}
    /\ market_events_raw = {}
    /\ perf_i = 1
    /\ performance_data = <<>>
    /\ daily_performance_raw = <<>>
    /\ batch_start = 0
    /\ competitive_intelligence_raw = <<>>
    /\ sample_performance = <<>>
    /\ txn_i = 1
    /\ transactions = <<>>
    /\ transaction_counter = 1
    /\ batch_counter = 0
    /\ guest_transactions_raw = <<>>
    /\ curated = [ properties_master |-> {}, daily_performance |-> <<>>,
                   competitive_intelligence |-> <<>>,
                   guest_transactions |-> <<>>, market_events |-> {} ]

perfVars == <<perf_i, performance_data, daily_performance_raw>>
ciVars == <<batch_start, competitive_intelligence_raw>>
txnVars == <<sample_performance, txn_i, transactions, transaction_counter,
             batch_counter, guest_transactions_raw>>

\* generate_properties_master as a whole: the table is overwritten
PropertiesCell ==
    /\ pc = "properties"
    /\ properties_master_raw' \in PipelinePropertyTables
    /\ existing' = existing \cup {"properties_master_raw"}
    /\ pc' = "events"
    /\ UNCHANGED <<start_date, end_date, rerun, market_events_raw, perfVars,
                   ciVars, txnVars, curated, propLocals, rowVars>>

\* generate_market_events (lines 369-456): every market walks the horizon in
\* weekly steps and may emit an event; the list is written in mode overwrite
MarketEventsCell ==
    /\ pc = "events"
    /\ \E emitted \in SUBSET (Markets \X WeekDates) :
          /\ emitted # {}
          /\ market_events_raw' = emitted
    /\ existing' = existing \cup {"market_events_raw"}
    /\ pc' = "performance"
    /\ UNCHANGED <<start_date, end_date, rerun, perfVars, ciVars, txnVars,
                   curated, propVars, rowVars>>

\* no event was drawn: spark.createDataFrame([]) of line 449 raises
MarketEventsCellRaises ==
    /\ pc = "events"
    /\ pc' = "events_failed"
    /\ UNCHANGED <<start_date, end_date, rerun, existing, market_events_raw,
                   perfVars, ciVars, txnVars, curated, propVars, rowVars>>

Min(a, b) == IF a < b THEN a ELSE b

\* ---- generate_daily_performance (lines 565-762)

\* the iteration without the reset of line 750: the batch stays in the buffer
PerfPropertyKeepsBatch ==
    /\ pc = "performance"
    /\ perf_i <= Cardinality(properties_master_raw)
    /\ \E smp \in PipelineRowSamples :
          LET p    == InSequenceOrder(properties_master_raw)[perf_i]
              data == performance_data \o PropertyDailyData(p, start_date, smp)
          IN  IF Len(data) >= PerfBatchSize
              THEN /\ daily_performance_raw' = daily_performance_raw \o data
                   /\ existing' = existing \cup {"daily_performance_raw"}
                   /\ performance_data' = data
              ELSE /\ performance_data' = data
                   /\ UNCHANGED <<daily_performance_raw, existing>>
    /\ perf_i' = perf_i + 1
    /\ UNCHANGED <<start_date, end_date, pc, rerun, market_events_raw, ciVars,
                   txnVars, curated, propVars, rowVars>>

\* one iteration of the for loop of line 589 whose batch write, if any, succeeds
PerfProperty ==
    /\ pc = "performance"
    /\ perf_i <= Cardinality(properties_master_raw)
    /\ \E smp \in PipelineRowSamples :
          LET p    == InSequenceOrder(properties_master_raw)[perf_i]
              data == performance_data \o PropertyDailyData(p, start_date, smp)
          IN  IF Len(data) >= PerfBatchSize
              THEN /\ daily_performance_raw' = daily_performance_raw \o data
                   /\ existing' = existing \cup {"daily_performance_raw"}
                   /\ performance_data' = <<>>
              ELSE /\ performance_data' = data
                   /\ UNCHANGED <<daily_performance_raw, existing>>
    /\ perf_i' = perf_i + 1
    /\ UNCHANGED <<start_date, end_date, pc, rerun, market_events_raw, ciVars,
                   txnVars, curated, propVars, rowVars>>

\* an iteration whose batch write (lines 743-747) raises
PerfPropertyWriteRaises ==
    /\ pc = "performance"
    /\ perf_i <= Cardinality(properties_master_raw)
    /\ \E smp \in PipelineRowSamples :
          LET p    == InSequenceOrder(properties_master_raw)[perf_i]
              data == performance_data \o PropertyDailyData(p, start_date, smp)
          IN  /\ Len(data) >= PerfBatchSize
              /\ performance_data' = data
    /\ pc' = "performance_failed"
    /\ UNCHANGED <<start_date, end_date, rerun, existing, market_events_raw,
                   perf_i, daily_performance_raw, ciVars, txnVars, curated,
                   propVars, rowVars>>

\* lines 752-762: the final batch and the count
PerfFinish ==
    /\ pc = "performance"
    /\ perf_i > Cardinality(properties_master_raw)
    /\ performance_data # <<>> \/ "daily_performance_raw" \in existing
    /\ daily_performance_raw' = daily_performance_raw \o performance_data
    /\ existing' = existing \cup {"daily_performance_raw"}
    /\ pc' = "competitive"
    /\ UNCHANGED <<start_date, end_date, rerun, market_events_raw, perf_i,
                   performance_data, ciVars, txnVars, curated, propVars, rowVars>>

\* the final write raises, or the count reads a table that does not exist
PerfFinishRaises ==
    /\ pc = "performance"
    /\ perf_i > Cardinality(properties_master_raw)
    /\ performance_data # <<>> \/ "daily_performance_raw" \notin existing
    /\ pc' = "performance_failed"
    /\ UNCHANGED <<start_date, end_date, rerun, existing, market_events_raw,
                   perfVars, ciVars, txnVars, curated, propVars, rowVars>>

\* ---- generate_competitive_intelligence (lines 781-925)

\* lines 814-820: daily performance joined to the properties of one market
MarketData(market_id) ==
    SelectSeq(daily_performance_raw,
              LAMBDA r : \E p \in properties_master_raw :
                            p.property_id = r.property_id /\ p.market_id = market_id)

\* lines 829-892: one record per joined row, date by date
RECURSIVE CompetitiveRecords(_, _)
CompetitiveRecords(market_id, business_date) ==
    IF business_date > NumDays THEN <<>>
    ELSE LET property_data ==
                 SelectSeq(MarketData(market_id),
                           LAMBDA r : r.business_date = business_date)
             records == [i \in DOMAIN property_data |->
                           [ market_id     |-> market_id,
                             business_date |-> business_date,
                             property_id   |-> property_data[i].property_id ]]
         IN  records \o CompetitiveRecords(market_id, business_date + 1)

\* lines 807-892: the records of the markets batch_start+1 .. batch_end
RECURSIVE CompetitiveBatchFrom(_, _)
CompetitiveBatchFrom(k, batch_end) ==
    IF k > Min(batch_end, Cardinality(Markets)) THEN <<>>
    ELSE CompetitiveRecords(OrderedMarkets(Markets)[k], 1)
         \o CompetitiveBatchFrom(k + 1, batch_end)

\* the table after the DROP TABLE IF EXISTS of line 787, run before the first batch
CiAfterDrop == IF batch_start = 0 THEN <<>> ELSE competitive_intelligence_raw
CiExistingAfterDrop ==
    IF batch_start = 0 THEN existing \ {"competitive_intelligence_raw"} ELSE existing

\* one batch of markets whose save succeeds (or that has nothing to save)
CompetitiveBatch ==
    /\ pc = "competitive"
    /\ batch_start < Cardinality(Markets)
    /\ LET competitive_batch ==
               CompetitiveBatchFrom(batch_start + 1, batch_start + CiBatchSize)
       IN  IF competitive_batch # <<>>
           THEN /\ competitive_intelligence_raw' =
                       IF batch_start = 0 THEN competitive_batch
                       ELSE competitive_intelligence_raw \o competitive_batch
                /\ existing' = CiExistingAfterDrop \cup {"competitive_intelligence_raw"}
           ELSE /\ competitive_intelligence_raw' = CiAfterDrop
                /\ existing' = CiExistingAfterDrop
    /\ batch_start' = batch_start + CiBatchSize
    /\ UNCHANGED <<start_date, end_date, pc, rerun, market_events_raw, perfVars,
                   txnVars, curated, propVars, rowVars>>

\* one batch whose save raises: lines 913-915 print and continue
CompetitiveBatchSaveRaises ==
    /\ pc = "competitive"
    /\ batch_start < Cardinality(Markets)
    /\ CompetitiveBatchFrom(batch_start + 1, batch_start + CiBatchSize) # <<>>
    /\ competitive_intelligence_raw' = CiAfterDrop
    /\ existing' = CiExistingAfterDrop
    /\ batch_start' = batch_start + CiBatchSize
    /\ UNCHANGED <<start_date, end_date, pc, rerun, market_events_raw, perfVars,
                   txnVars, curated, propVars, rowVars>>

\* lines 920-925: the count inside try/except; the function returns
CompetitiveFinish ==
    /\ pc = "competitive"
    /\ batch_start >= Cardinality(Markets)
    /\ pc' = "transactions"
    /\ UNCHANGED <<start_date, end_date, rerun, existing, market_events_raw,
                   perfVars, ciVars, txnVars, curated, propVars, rowVars>>

\* ---- generate_realistic_guest_transactions (lines 937-1131)

\* a nullable date column: NULL, or the date it holds
NULL == <<>>
DateValue(d) == <<d>>

\* one of the values line 1071 draws advance_days from
AdvanceDaysSamples == {7}

NumTransactionsRounded(rooms_sold) ==
    LET estimated == RoundDiv(rooms_sold * 5, 9)
    IN  IF estimated < 2 THEN 2 ELSE IF estimated > 8 THEN 8 ELSE estimated

NumTransactionsUncapped(rooms_sold) ==
    IF rooms_sold * 5 < 2 * 9 THEN 2 ELSE (rooms_sold * 5) \div 9

\* lines 978-993: 2 to 8 (or 5) transactions for a property-night
NumTransactions(rooms_sold) ==
    LET max_transactions == IF rooms_sold > 20 THEN 8 ELSE 5
    IN  IF rooms_sold * 5 < 2 * 9 THEN 2
        ELSE IF rooms_sold * 5 > max_transactions * 9 THEN max_transactions
        ELSE (rooms_sold * 5) \div 9

\* lines 953-960: the join that the sample is drawn from
SampleCandidates ==
    SelectSeq(daily_performance_raw,
              LAMBDA r : /\ r.rooms_sold > 5
                         /\ \E p \in properties_master_raw :
                               p.property_id = r.property_id)

RECURSIVE PickRows(_, _, _)
PickRows(rows, picked, i) ==
    IF i > Len(rows) THEN <<>>
    ELSE (IF i \in picked THEN <<rows[i]>> ELSE <<>>) \o PickRows(rows, picked, i + 1)

\* lines 1003-1101: the records of one property-night
NightTransactions(perf, advance_days, first_counter) ==
    [n \in 1..NumTransactions(perf.rooms_sold) |->
        [ transaction_id    |-> first_counter + n - 1,
          property_id       |-> perf.property_id,
          business_date     |-> perf.business_date,
          booking_date      |-> perf.business_date - advance_days,
          cancellation_date |-> DateValue(perf.business_date - advance_days),
          no_show           |-> FALSE ]]

\* lines 943-967: the table is dropped, the sample is drawn, the locals are set
SamplePerformance ==
    /\ pc = "transactions"
    /\ \E picked \in SUBSET DOMAIN SampleCandidates :
          /\ Cardinality(picked) = Min(SampleLimit, Len(SampleCandidates))
          /\ sample_performance' = PickRows(SampleCandidates, picked, 1)
    /\ guest_transactions_raw' = <<>>
    /\ existing' = existing \ {"guest_transactions_raw"}
    /\ txn_i' = 1
    /\ transactions' = <<>>
    /\ transaction_counter' = 1
    /\ batch_counter' = 0
    /\ pc' = "transaction_loop"
    /\ UNCHANGED <<start_date, end_date, rerun, market_events_raw, perfVars,
                   ciVars, curated, propVars, rowVars>>

\* one iteration of the loop of line 969; every full batch is saved
TransactionNight ==
    /\ pc = "transaction_loop"
    /\ txn_i <= Len(sample_performance)
    /\ \E advance_days \in AdvanceDaysSamples :
          LET buffered == transactions \o
                          NightTransactions(sample_performance[txn_i],
                                            advance_days, transaction_counter)
              batches  == Len(buffered) \div TxnBatchSize
              saved    == SubSeq(buffered, 1, batches * TxnBatchSize)
          IN  /\ transactions' = SubSeq(buffered, batches * TxnBatchSize + 1,
                                        Len(buffered))
              /\ transaction_counter' =
                     transaction_counter
                     + NumTransactions(sample_performance[txn_i].rooms_sold)
              /\ batch_counter' = batch_counter + batches
              /\ IF batches > 0
                 THEN /\ guest_transactions_raw' =
                             IF batch_counter = 0 THEN saved
                             ELSE guest_transactions_raw \o saved
                      /\ existing' = existing \cup {"guest_transactions_raw"}
                 ELSE UNCHANGED <<guest_transactions_raw, existing>>
    /\ txn_i' = txn_i + 1
    /\ UNCHANGED <<start_date, end_date, pc, rerun, market_events_raw,
                   sample_performance, perfVars, ciVars, curated, propVars,
                   rowVars>>

\* an iteration whose batch save (lines 1106-1111) raises
TransactionNightSaveRaises ==
    /\ pc = "transaction_loop"
    /\ txn_i <= Len(sample_performance)
    /\ Len(transactions) + NumTransactions(sample_performance[txn_i].rooms_sold)
          >= TxnBatchSize
    /\ pc' = "transactions_failed"
    /\ UNCHANGED <<start_date, end_date, rerun, existing, market_events_raw,
                   perfVars, ciVars, txnVars, curated, propVars, rowVars>>

\* lines 1117-1131: the final batch, the count and the average
TransactionsFinish ==
    /\ pc = "transaction_loop"
    /\ txn_i > Len(sample_performance)
    /\ transactions # <<>> \/ "guest_transactions_raw" \in existing
    /\ sample_performance # <<>>
    /\ guest_transactions_raw' =
           IF batch_counter = 0 THEN transactions
           ELSE guest_transactions_raw \o transactions
    /\ existing' = existing \cup {"guest_transactions_raw"}
    /\ pc' = "revpar_fix"
    /\ UNCHANGED <<start_date, end_date, rerun, market_events_raw,
                   sample_performance, txn_i, transactions, transaction_counter,
                   batch_counter, perfVars, ciVars, curated, propVars, rowVars>>

\* the final save raises, or the count reads the table that was dropped
TransactionsFinishRaises ==
    /\ pc = "transaction_loop"
    /\ txn_i > Len(sample_performance)
    /\ transactions # <<>> \/ "guest_transactions_raw" \notin existing
    /\ pc' = "transactions_failed"
    /\ UNCHANGED <<start_date, end_date, rerun, existing, market_events_raw,
                   perfVars, ciVars, txnVars, curated, propVars, rowVars>>

\* ---- the cells after the generators

\* lines 1148-1152: the UPDATE on the staged daily performance
RevparFixCell ==
    /\ pc = "revpar_fix"
    /\ daily_performance_raw' = RevparFixTable(daily_performance_raw)
    /\ pc' = "validate"
    /\ UNCHANGED <<start_date, end_date, rerun, existing, market_events_raw,
                   perf_i, performance_data, ciVars, txnVars, curated, propVars,
                   rowVars>>

StagingTables ==
    { "properties_master_raw", "daily_performance_raw",
      "competitive_intelligence_raw", "guest_transactions_raw",
      "market_events_raw" }

\* validate_generated_data (lines 1161-1252) counts every staging table
ValidateCell ==
    /\ pc = "validate"
    /\ StagingTables \subseteq existing
    /\ pc' = "load"
    /\ UNCHANGED <<start_date, end_date, rerun, existing, market_events_raw,
                   perfVars, ciVars, txnVars, curated, propVars, rowVars>>

\* line 1177 raises on a staging table that does not exist
ValidateCellRaises ==
    /\ pc = "validate"
    /\ ~ (StagingTables \subseteq existing)
    /\ pc' = "validate_failed"
    /\ UNCHANGED <<start_date, end_date, rerun, existing, market_events_raw,
                   perfVars, ciVars, txnVars, curated, propVars, rowVars>>

\* line 1350: WHERE cancellation_date IS NULL AND no_show = FALSE
CuratedTransactionFilter(t) == t.cancellation_date = NULL /\ t.no_show = FALSE

\* lines 1261-1367: the five INSERT OVERWRITE statements
LoadCurated ==
    /\ pc = "load"
    /\ curated' =
         [ properties_master        |-> properties_master_raw,
           daily_performance        |-> daily_performance_raw,
           competitive_intelligence |-> competitive_intelligence_raw,
           guest_transactions       |-> SelectSeq(guest_transactions_raw,
                                                  CuratedTransactionFilter),
           market_events            |-> market_events_raw ]
    /\ pc' = "done"
    /\ UNCHANGED <<start_date, end_date, rerun, existing, market_events_raw,
                   perfVars, ciVars, txnVars, propVars, rowVars>>

\* where a run of the notebook stops on an exception
FailedPositions ==
    {"events_failed", "performance_failed", "transactions_failed", "validate_failed"}

\* the notebook is run again from its first cell over the tables it left
RerunNotebook ==
    /\ pc \in {"done"} \cup FailedPositions
    /\ ~ rerun
    /\ rerun' = TRUE
    /\ pc' = "properties"
    /\ perf_i' = 1
    /\ performance_data' = <<>>
    /\ batch_start' = 0
    /\ sample_performance' = <<>>
    /\ txn_i' = 1
    /\ transactions' = <<>>
    /\ transaction_counter' = 1
    /\ batch_counter' = 0
    /\ UNCHANGED <<start_date, end_date, existing, market_events_raw,
                   daily_performance_raw, competitive_intelligence_raw,
                   guest_transactions_raw, curated, propVars, rowVars>>

NextPipeline ==
    \/ PropertiesCell
    \/ MarketEventsCell
    \/ MarketEventsCellRaises
    \/ PerfProperty
    \/ PerfPropertyWriteRaises
    \/ PerfFinish
    \/ PerfFinishRaises
    \/ CompetitiveBatch
    \/ CompetitiveBatchSaveRaises
    \/ CompetitiveFinish
    \/ SamplePerformance
    \/ TransactionNight
    \/ TransactionNightSaveRaises
    \/ TransactionsFinish
    \/ TransactionsFinishRaises
    \/ RevparFixCell
    \/ ValidateCell
    \/ ValidateCellRaises
    \/ LoadCurated
    \/ RerunNotebook

SpecPipeline == InitPipeline /\ [][NextPipeline]_vars

-----------------------------------------------------------------------------
(* Specification SpecPerformance: generate_daily_performance (lines         *)
(* 565-762) run on its own, first run, over staged properties: one, two or  *)
(* three of them, so that a run can flush a full batch and still have rows  *)
(* left for the final one.                                                  *)

PerformancePropertyTables ==
    LET ny == CHOOSE c \in cities_by_region["Northeast"] : c.city = "New York"
        wb == CHOOSE c \in cities_by_region["Northeast"] : c.city = "Waterbury"
        orl == CHOOSE c \in cities_by_region["Southeast"] : c.city = "Orlando"
    IN  PipelinePropertyTables \cup
        { { PropertyData(ny, "Super 8", "Northeast", 90, 1),
            PropertyData(wb, "Super 8", "Northeast", 90, 2),
            PropertyData(orl, "Wyndham", "Southeast", 150, 3) } }

InitPerformance ==
    /\ IdleRows
    /\ config_brands = {}
    /\ pcP = "idle"
    /\ region_idx = 0
    /\ properties_created = 0
    /\ property_id_counter = 0
    /\ properties = <<>>
    /\ errors_caught = 0
    /\ properties_master_raw \in PerformancePropertyTables
    /\ start_date = 1
    /\ end_date \in 0..NumDays
    /\ pc = "performance"
    /\ rerun = FALSE
    /\ existing = {"properties_master_raw", "market_events_raw"}
    /\ market_events_raw = {}
    /\ perf_i = 1
    /\ performance_data = <<>>
    /\ daily_performance_raw = <<>>
    /\ batch_start = 0
    /\ competitive_intelligence_raw = <<>>
    /\ sample_performance = <<>>
    /\ txn_i = 1
    /\ transactions = <<>>
    /\ transaction_counter = 1
    /\ batch_counter = 0
    /\ guest_transactions_raw = <<>>
    /\ curated = <<>>

NextPerformance ==
    \/ PerfProperty
    \/ PerfPropertyWriteRaises
    \/ PerfFinish
    \/ PerfFinishRaises

SpecPerformance == InitPerformance /\ [][NextPerformance]_vars

-----------------------------------------------------------------------------
(* The measures of generate_competitive_intelligence (lines 842-891) for   *)
(* one (market, date) group. The pipeline above keeps the key of each      *)
(* record; here the record is computed in full. Python's floats are        *)
(* modelled by exact fractions <<numerator, denominator>>; money is in     *)
(* cents, the random factors are in 1/100, the stored indices in 1/100.    *)

RECURSIVE GCD(_, _)
GCD(a, b) == IF b = 0 THEN a ELSE GCD(b, a % b)

\* the fraction n/d in lowest terms (d > 0, n >= 0)
Frac(n, d) == LET g == GCD(n, d) IN <<n \div g, d \div g>>

\* x * y, cancelling across before multiplying
FracMul(x, y) ==
    LET g1 == GCD(x[1], y[2])
        g2 == GCD(y[1], x[2])
    IN  IF x[1] = 0 \/ y[1] = 0 THEN <<0, 1>>
        ELSE <<(x[1] \div g1) * (y[1] \div g2), (x[2] \div g2) * (y[2] \div g1)>>

\* x / y for y > 0
FracDiv(x, y) == FracMul(x, <<y[2], y[1]>>)

\* float(f"{x:.2f}") for x in units of 1/scale of the stored unit
FracRound(x, scale) == RoundDiv(x[1] * scale, x[2])

\* lines 843-852: the room-weighted totals of the group
RECURSIVE total_revpar(_)
total_revpar(property_data) ==
    IF property_data = <<>> THEN 0
    ELSE Head(property_data).revpar * Head(property_data).room_count
         + total_revpar(Tail(property_data))

RECURSIVE total_adr(_)
total_adr(property_data) ==
    IF property_data = <<>> THEN 0
    ELSE Head(property_data).adr * Head(property_data).room_count
         + total_adr(Tail(property_data))

\* in 1/10000 room
RECURSIVE total_occ(_)
total_occ(property_data) ==
    IF property_data = <<>> THEN 0
    ELSE Head(property_data).occupancy_rate * Head(property_data).room_count
         + total_occ(Tail(property_data))

RECURSIVE total_rooms(_)
total_rooms(property_data) ==
    IF property_data = <<>> THEN 0
    ELSE Head(property_data).room_count + total_rooms(Tail(property_data))

CompetitiveIndexInverted(wyndham, market) ==
    IF market[1] > 0 THEN FracMul(FracDiv(market, wyndham), <<100, 1>>)
    ELSE <<100, 1>>

\* the index with 0 in place of the default
CompetitiveIndexDefaultZero(wyndham, market) ==
    IF market[1] > 0 THEN FracMul(FracDiv(wyndham, market), <<100, 1>>)
    ELSE <<0, 1>>

\* lines 868-870: wyndham / market * 100 if market > 0 else 100
CompetitiveIndex(wyndham, market) ==
    IF market[1] > 0 THEN FracMul(FracDiv(wyndham, market), <<100, 1>>)
    ELSE <<100, 1>>

MarketRoomNightsTripled(rooms, market_occ) ==
    LET nights == FracMul(FracMul(<<rooms, 1>>, market_occ), <<3, 10000>>)
    IN  nights[1] \div nights[2]

\* line 873: int(total_rooms * market_occ * 4), the occupancy in 1/10000
MarketRoomNights(rooms, market_occ) ==
    LET nights == FracMul(FracMul(<<rooms, 1>>, market_occ), <<4, 10000>>)
    IN  nights[1] \div nights[2]

\* line 874: int(market_room_nights * 0.25)
FairShareRooms(market_room_nights) == market_room_nights \div 4

\* line 875: total_rooms * wyndham_occ / fair_share_rooms * 100 if
\* fair_share_rooms > 0 else 100
PenetrationIndex(rooms, wyndham_occ, fair_share_rooms) ==
    IF fair_share_rooms > 0
    THEN FracMul(FracMul(<<rooms, 1>>, wyndham_occ), Frac(100, 10000 * fair_share_rooms))
    ELSE <<100, 1>>

\* lines 842-891: the records of one date of one market; market_factor,
\* adr_factor and occ_factor are the draws of lines 863, 865 and 866, kept
\* with the record together with the subject averages they divide
CompetitiveDateRecords(market_id, business_date, property_data, market_factor, adr_factor, occ_factor) ==
    LET rooms          == total_rooms(property_data)
        wyndham_revpar == Frac(total_revpar(property_data), rooms)
        wyndham_adr    == Frac(total_adr(property_data), rooms)
        wyndham_occ    == Frac(total_occ(property_data), rooms)
        market_revpar  == FracDiv(wyndham_revpar, Frac(market_factor, 100))
        market_adr     == FracDiv(wyndham_adr, Frac(adr_factor, 100))
        market_occ     == FracDiv(wyndham_occ, Frac(occ_factor, 100))
        revpar_index   == CompetitiveIndex(wyndham_revpar, market_revpar)
        adr_index      == CompetitiveIndex(wyndham_adr, market_adr)
        market_room_nights == MarketRoomNights(rooms, market_occ)
        fair_share_rooms   == FairShareRooms(market_room_nights)
        penetration_index  == PenetrationIndex(rooms, wyndham_occ, fair_share_rooms)
    IN  IF rooms = 0 THEN <<>>
        ELSE [i \in DOMAIN property_data |->
                [ market_id          |-> market_id,
                  business_date      |-> business_date,
                  property_id        |-> property_data[i].property_id,
                  market_occupancy   |-> FracRound(market_occ, 1),
                  market_adr         |-> FracRound(market_adr, 1),
                  market_revpar      |-> FracRound(market_revpar, 1),
                  penetration_index  |-> FracRound(penetration_index, 100),
                  adr_index          |-> FracRound(adr_index, 100),
                  revpar_index       |-> FracRound(revpar_index, 100),
                  market_room_nights |-> market_room_nights,
                  fair_share_rooms   |-> fair_share_rooms,
                  wyndham_revpar     |-> wyndham_revpar,
                  wyndham_adr        |-> wyndham_adr,
                  wyndham_occ        |-> wyndham_occ,
                  total_rooms        |-> rooms,
                  market_factor      |-> market_factor,
                  adr_factor         |-> adr_factor,
                  occ_factor         |-> occ_factor ]]

MaxCompetitiveDates == 2

\* a row of the join of lines 814-820 for a property with room_count rooms
JoinedRow(sequence, room_count, daily_occupancy, adr_669, adr_variation) ==
    LET row == DailyRow(room_count, daily_occupancy, adr_669, adr_variation)
    IN  [ property_id    |-> generate_property_id("Super 8", "Northeast", sequence),
          room_count     |-> room_count,
          occupancy_rate |-> row.occupancy_rate,
          adr            |-> row.adr,
          revpar         |-> row.revpar ]

\* the groups of the model: one property, or two properties of different size
CompetitiveDataSamples ==
    { << JoinedRow(1, 61, 4990, 123000, 97) >>,
      << JoinedRow(1, 61, 4990, 123000, 97),
         JoinedRow(2, 100, 7013, 312000, 104) >>,
      << JoinedRow(1, 100, 1000, 312000, 104),
         JoinedRow(2, 61, 12000, 123000, 104) >> }

\* random.uniform(0.85, 1.15) and random.uniform(0.90, 1.10), in 1/100
MarketFactorSamples == {85, 97, 100, 115}
AdrFactorSamples == {90, 103, 110}
\* random.uniform(0.95, 1.05) of line 866, in 1/100
OccFactorSamples == {95, 100, 105}

InitCompetitive == IdleRows /\ IdleProps /\ IdlePipeline

\* the date the next group is for
NextCompetitiveDate ==
    IF competitive_intelligence_raw = <<>> THEN 1
    ELSE competitive_intelligence_raw[Len(competitive_intelligence_raw)].business_date + 1

\* one iteration of the loop of line 839, its records appended to the table
GenerateCompetitiveDate ==
    /\ pc = "idle"
    /\ NextCompetitiveDate <= MaxCompetitiveDates
    /\ \E property_data \in CompetitiveDataSamples,
          market_factor \in MarketFactorSamples,
          adr_factor \in AdrFactorSamples,
          occ_factor \in OccFactorSamples :
          competitive_intelligence_raw' =
              competitive_intelligence_raw \o
              CompetitiveDateRecords(<<"NEWYORK", "Primary">>, NextCompetitiveDate,
                                     property_data, market_factor, adr_factor,
                                     occ_factor)
    /\ UNCHANGED <<start_date, end_date, pc, rerun, existing, market_events_raw,
                   perfVars, batch_start, txnVars, curated, propVars, rowVars>>

NextCompetitive == GenerateCompetitiveDate

SpecCompetitive == InitCompetitive /\ [][NextCompetitive]_vars

-----------------------------------------------------------------------------
(* generate_realistic_guest_transactions run on its own over staged        *)
(* properties and daily performance whose rooms_sold cover both caps of    *)
(* lines 985-986 (rooms_sold up to 20, and above 20).                      *)

\* two Northeast Super 8 properties, of 61 and of 100 rooms
TransactionProperties ==
    LET ny == CHOOSE c \in cities_by_region["Northeast"] : c.city = "New York"
        wb == CHOOSE c \in cities_by_region["Northeast"] : c.city = "Waterbury"
    IN  { PropertyData(ny, "Super 8", "Northeast", 61, 1),
          PropertyData(wb, "Super 8", "Northeast", 100, 2) }

\* occupancies before the clamp: with 61 rooms they sell 9, 12, 12, 30 and
\* 42 rooms, with 100 rooms 15, 20, 21, 49 and 70
TransactionOccupancySamples == {1000, 2000, 2100, 4990, 7013}

\* one staged row of a property for the first date
StagedRow(p, daily_occupancy) ==
    DailyRow(p.room_count, daily_occupancy, 123000, 97) @@
    [property_id |-> p.property_id, business_date |-> 1]

InitTransactions ==
    /\ IdleRows
    /\ config_brands = {}
    /\ pcP = "idle"
    /\ region_idx = 0
    /\ properties_created = 0
    /\ property_id_counter = 0
    /\ properties = <<>>
    /\ errors_caught = 0
    /\ properties_master_raw = TransactionProperties
    /\ start_date = 1
    /\ end_date = 1
    /\ pc = "transactions"
    /\ rerun = FALSE
    /\ existing = {"properties_master_raw", "market_events_raw",
                   "daily_performance_raw"}
    /\ market_events_raw = {}
    /\ perf_i = 0
    /\ performance_data = <<>>
    /\ \E o1, o2 \in TransactionOccupancySamples :
          daily_performance_raw =
              << StagedRow(InSequenceOrder(TransactionProperties)[1], o1),
                 StagedRow(InSequenceOrder(TransactionProperties)[2], o2) >>
    /\ batch_start = 0
    /\ competitive_intelligence_raw = <<>>
    /\ sample_performance = <<>>
    /\ txn_i = 0
    /\ transactions = <<>>
    /\ transaction_counter = 0
    /\ batch_counter = 0
    /\ guest_transactions_raw = <<>>
    /\ curated = <<>>

NextTransactions ==
    \/ SamplePerformance
    \/ TransactionNight
    \/ TransactionNightSaveRaises
    \/ TransactionsFinish
    \/ TransactionsFinishRaises

SpecTransactions == InitTransactions /\ [][NextTransactions]_vars

-----------------------------------------------------------------------------
(* Specification SpecCompetitiveGuards: the market loop of                 *)
(* generate_competitive_intelligence (lines 809-892) over joined rows that *)
(* make its guards act: a market without rows, a date whose room counts    *)
(* add up to zero, and groups whose market values or fair share are zero.  *)

\* the markets of the loop of line 809, ordered by market_id
GuardMarkets == << <<"NEWYORK", "Primary">>, <<"WATERBURY", "Tertiary">> >>

GuardDates == {1, 2}

\* a row of the join of lines 814-820
GuardRow(market_id, business_date, sequence, room_count, occupancy_rate, adr, revpar) ==
    [ market_id |-> market_id, business_date |-> business_date,
      property_id |-> generate_property_id("Super 8", "Northeast", sequence),
      occupancy_rate |-> occupancy_rate, adr |-> adr, revpar |-> revpar,
      room_count |-> room_count ]

\* the joined rows of all markets: no row at all; rows of the second market
\* only; a zero-room date followed by a one-room date; a date with nothing
\* sold; an ordinary property next to these
GuardTableSamples ==
    { <<>>,
      << GuardRow(GuardMarkets[2], 1, 2, 100, 0, 0, 0) >>,
      << GuardRow(GuardMarkets[2], 1, 2, 0, 5000, 10000, 5000),
         GuardRow(GuardMarkets[2], 1, 3, 0, 0, 0, 0),
         GuardRow(GuardMarkets[2], 2, 2, 100, 0, 0, 0) >>,
      << GuardRow(GuardMarkets[1], 1, 1, 0, 5000, 10000, 5000),
         GuardRow(GuardMarkets[1], 2, 1, 1, 5000, 10000, 5000) >>,
      << GuardRow(GuardMarkets[1], 1, 1, 61, 4918, 10738, 5281),
         GuardRow(GuardMarkets[2], 1, 2, 100, 0, 0, 0),
         GuardRow(GuardMarkets[2], 2, 2, 1, 5000, 10000, 5000) >> }

\* the draws of lines 863, 865 and 866 for one date
FactorDraws ==
    [market_factor : MarketFactorSamples, adr_factor : AdrFactorSamples,
     occ_factor : OccFactorSamples]

\* lines 839-892: the dates of dates_data in turn
RECURSIVE GuardDateRecords(_, _, _, _)
GuardDateRecords(market_id, market_data, business_date, draws) ==
    IF business_date \notin GuardDates THEN <<>>
    ELSE LET property_data ==
                 SelectSeq(market_data, LAMBDA r : r.business_date = business_date)
             records ==
                 IF property_data = <<>> THEN <<>>
                 ELSE CompetitiveDateRecords(market_id, business_date, property_data,
                                             draws[business_date].market_factor,
                                             draws[business_date].adr_factor,
                                             draws[business_date].occ_factor)
         IN  records \o GuardDateRecords(market_id, market_data, business_date + 1, draws)

\* lines 810-892: the records of one market; line 823 skips a market
\* whose join returns no row
GuardMarketRecords(market_id, draws) ==
    LET market_data ==
            SelectSeq(daily_performance_raw, LAMBDA r : r.market_id = market_id)
    IN  IF Len(market_data) = 0 THEN <<>>
        ELSE GuardDateRecords(market_id, market_data, 1, draws)

InitCompetitiveGuards ==
    /\ IdleRows
    /\ IdleProps
    /\ start_date = 0
    /\ end_date = 0
    /\ pc = "competitive"
    /\ rerun = FALSE
    /\ existing = {}
    /\ market_events_raw = {}
    /\ perf_i = 0
    /\ performance_data = <<>>
    /\ daily_performance_raw \in GuardTableSamples
    /\ batch_start = 0
    /\ competitive_intelligence_raw = <<>>
    /\ sample_performance = <<>>
    /\ txn_i = 0
    /\ transactions = <<>>
    /\ transaction_counter = 0
    /\ batch_counter = 0
    /\ guest_transactions_raw = <<>>
    /\ curated = <<>>

\* one iteration of the loop of line 809, its records added to the batch
GenerateCompetitiveMarket ==
    /\ pc = "competitive"
    /\ batch_start < Len(GuardMarkets)
    /\ \E draws \in [GuardDates -> FactorDraws] :
          competitive_intelligence_raw' =
              competitive_intelligence_raw \o
              GuardMarketRecords(GuardMarkets[batch_start + 1], draws)
    /\ batch_start' = batch_start + 1
    /\ UNCHANGED <<start_date, end_date, pc, rerun, existing, market_events_raw,
                   perfVars, txnVars, curated, propVars, rowVars>>

NextCompetitiveGuards == GenerateCompetitiveMarket

SpecCompetitiveGuards == InitCompetitiveGuards /\ [][NextCompetitiveGuards]_vars

-----------------------------------------------------------------------------
(* Specification SpecSeason: the while loop of generate_daily_performance  *)
(* (lines 637-735) for one property over one calendar year of the          *)
(* configured range 2021-01-01 .. 2023-12-31, with the noise factors       *)
(* occupancy_variation and adr_variation at 1.0 and no market event, and   *)
(* the month averages of the seasonal query of validate_generated_data.    *)
(* Multipliers: seasonal in 1/1000, day of week in 1/10,                   *)
(* property_performance_factor and adr_multiplier in 1/100.                *)

\* regional_profiles (lines 73-82)
regional_profiles ==
    [ r \in {"Northeast", "Southeast", "West", "Southwest", "Midwest",
             "Central Canada", "Eastern Canada", "Western Canada"} |->
        CASE r = "Northeast"      -> [adr_multiplier |-> 125, seasonality |-> "moderate"]
          [] r = "Southeast"      -> [adr_multiplier |-> 110, seasonality |-> "high"]
          [] r = "West"           -> [adr_multiplier |-> 130, seasonality |-> "moderate"]
          [] r = "Southwest"      -> [adr_multiplier |-> 115, seasonality |-> "high"]
          [] r = "Midwest"        -> [adr_multiplier |-> 100, seasonality |-> "high"]
          [] r = "Central Canada" -> [adr_multiplier |-> 95,  seasonality |-> "high"]
          [] r = "Eastern Canada" -> [adr_multiplier |-> 105, seasonality |-> "high"]
          [] r = "Western Canada" -> [adr_multiplier |-> 120, seasonality |-> "moderate"] ]

\* the years of config['data_scope'] (none of them a leap year)
SeasonYears == {2021, 2022, 2023}

\* date_obj.month and date_obj.day of the day-of-year doy
DaysInMonth == <<31, 28, 31, 30, 31, 30, 31, 31, 30, 31, 30, 31>>

RECURSIVE MonthFrom(_, _)
MonthFrom(doy, m) ==
    IF doy <= DaysInMonth[m] THEN m ELSE MonthFrom(doy - DaysInMonth[m], m + 1)

DateMonth(doy) == MonthFrom(doy, 1)

RECURSIVE DayFrom(_, _)
DayFrom(doy, m) ==
    IF doy <= DaysInMonth[m] THEN doy ELSE DayFrom(doy - DaysInMonth[m], m + 1)

DateDay(doy) == DayFrom(doy, 1)

\* date_obj.weekday(), 0 = Monday: 2021-01-01 is a Friday
DateWeekday(year, doy) == (4 + (year - 2021) * 365 + doy - 1) % 7

\* the holiday overrides taken for every day of their month
base_multiplierHolidayMonths(month, day) ==
    IF month = 12 THEN 1400
    ELSE IF month = 11 THEN 1200
    ELSE IF month = 7 THEN 1500
    ELSE IF month \in {6, 8} THEN 1300
    ELSE IF month \in {1, 2} THEN 750
    ELSE 1000

\* get_seasonal_multiplier, lines 164-178
base_multiplier(month, day) ==
    IF month = 12 /\ day > 20 THEN 1400
    ELSE IF month = 11 /\ 22 <= day /\ day <= 28 THEN 1200
    ELSE IF month = 7 /\ day = 4 THEN 1500
    ELSE IF month \in {6, 7, 8} THEN 1300
    ELSE IF month \in {12, 1, 2} THEN 750
    ELSE 1000

\* get_seasonal_multiplier, lines 180-187
get_seasonal_multiplier(month, day, region) ==
    LET regional_factor == regional_profiles[region].seasonality
        b == base_multiplier(month, day)
    IN  IF regional_factor = "high" THEN b
        ELSE IF regional_factor = "moderate" THEN 1000 + ((b - 1000) * 7) \div 10
        ELSE 1000 + (b - 1000) \div 2

\* get_day_of_week_multiplier, lines 189-205
get_day_of_week_multiplier(dow, property_type) ==
    IF property_type \in {"Resort", "Urban"}
    THEN IF dow \in {4, 5, 6} THEN 12
         ELSE IF dow \in {0, 3} THEN 9
         ELSE 8
    ELSE IF dow \in {0, 1, 2, 3} THEN 11 ELSE 9

\* lines 598-632: base_adr in 1/1000 dollar
BaseAdr(p) ==
    LET a0 == brand_profiles[p.brand].adr_base * regional_profiles[p.region].adr_multiplier * 10
        a1 == IF p.market_tier = "Primary" THEN (a0 * 115) \div 100
              ELSE IF p.market_tier = "Tertiary" THEN (a0 * 90) \div 100
              ELSE a0
        a2 == IF p.property_type = "Airport" THEN (a1 * 110) \div 100
              ELSE IF p.property_type = "Resort" THEN (a1 * 125) \div 100
              ELSE IF p.property_type = "Highway" THEN (a1 * 95) \div 100
              ELSE a1
    IN  (a2 * p.property_performance_factor) \div 100

\* lines 599-632: base_occupancy in 1/10000
BaseOccupancy(p) ==
    LET o0 == 6800
        o1 == IF p.market_tier = "Primary" THEN o0 + 500
              ELSE IF p.market_tier = "Tertiary" THEN o0 - 500
              ELSE o0
        o2 == IF p.property_type = "Airport" THEN o1 + 800
              ELSE IF p.property_type = "Highway" THEN o1 + 200
              ELSE o1
        occupancy_factor == IF p.property_performance_factor < 120
                            THEN p.property_performance_factor ELSE 120
    IN  (o2 * occupancy_factor) \div 100

\* lines 639-656 with event_occupancy_lift = 0 and occupancy_variation = 1.0:
\* the pre-clamp daily_occupancy
SeasonOccupancy(p, year, doy) ==
    (BaseOccupancy(p)
        * get_seasonal_multiplier(DateMonth(doy), DateDay(doy), p.region)
        * get_day_of_week_multiplier(DateWeekday(year, doy), p.property_type)) \div 10000

\* line 669 with event_adr_lift = 0
SeasonAdr(p, doy) ==
    (BaseAdr(p) * get_seasonal_multiplier(DateMonth(doy), DateDay(doy), p.region)) \div 1000

\* the row of one date
SeasonRow(p, year, doy) ==
    DailyRow(p.room_count, SeasonOccupancy(p, year, doy), SeasonAdr(p, doy), 100)

\* properties of cities_by_region with brands of brand_profiles, room
\* counts inside the brand's room_range and performance factors inside the
\* clip [0.7, 1.4]; on these the integer arithmetic above gives the rows of
\* the code's floating point for every date of 2021-2023.
SeasonProperties ==
    { [brand |-> "Super 8", region |-> "Southeast", market_tier |-> "Primary",
       property_type |-> "Urban", room_count |-> 90, property_performance_factor |-> 120],
      [brand |-> "Days Inn", region |-> "Southeast", market_tier |-> "Tertiary",
       property_type |-> "Suburban", room_count |-> 100, property_performance_factor |-> 100],
      [brand |-> "Wyndham", region |-> "Northeast", market_tier |-> "Primary",
       property_type |-> "Urban", room_count |-> 150, property_performance_factor |-> 120],
      [brand |-> "Wyndham", region |-> "Northeast", market_tier |-> "Tertiary",
       property_type |-> "Highway", room_count |-> 150, property_performance_factor |-> 80],
      [brand |-> "Wyndham", region |-> "Southeast", market_tier |-> "Primary",
       property_type |-> "Resort", room_count |-> 150, property_performance_factor |-> 80] }

InitSeason ==
    /\ daily_performance_rows = <<>>
    /\ row_locals = <<>>
    /\ affected_log = <<>>
    /\ revpar_check = -1
    /\ season_property \in SeasonProperties
    /\ season_year \in SeasonYears
    /\ season_day = 1
    /\ season_row = <<>>
    /\ month_revpar = [m \in 1..12 |-> 0]
    /\ IdleEvents
    /\ IdleProps
    /\ IdlePipeline

\* one iteration of the while loop (lines 637-735) and the row's share of
\* AVG(revpar) GROUP BY MONTH(business_date) (lines 1235-1247)
GenerateSeasonDay ==
    /\ season_day \in 1..365
    /\ LET row == SeasonRow(season_property, season_year, season_day)
       IN  /\ season_row' = row
           /\ month_revpar' = [month_revpar EXCEPT ![DateMonth(season_day)] = @ + row.revpar]
    /\ season_day' = season_day + 1
    /\ UNCHANGED <<season_property, season_year, daily_performance_rows,
                   row_locals, affected_log, revpar_check, eventVars,
                   propVars, pipeVars>>

NextSeason == GenerateSeasonDay

SpecSeason == InitSeason /\ [][NextSeason]_vars

-----------------------------------------------------------------------------
(* Specification SpecDaily: single iterations of the while loop of         *)
(* generate_daily_performance (lines 637-735) with an event lift looked up  *)
(* and both noise factors drawn.  Event lifts are in 1/10000, the noise     *)
(* factors daily_variation and adr_variation in 1/100.                      *)

\* days of the year: Jan 15, Apr 10, Jul 4, Jul 15, Nov 25, Dec 25
DaySamples == {15, 100, 185, 196, 329, 359}

\* (event_demand_lift, event_adr_lift) of lines 643-649: no event, an event
\* with demand_lift_pct 22.50 and adr_lift_pct 18.00, an Economic event with
\* -25.00 and -20.00
EventImpactSamples ==
    { [event_demand_lift |-> 0,     event_adr_lift |-> 0],
      [event_demand_lift |-> 2250,  event_adr_lift |-> 1800],
      [event_demand_lift |-> -2500, event_adr_lift |-> -2000] }

\* values of np.random.normal(1.0, 0.08) and of np.random.normal(1.0, 0.05)
DailyVariationSamples == {97, 100, 103}
DayAdrVariationSamples == {92, 109}

\* two of SeasonProperties; on them and the samples above the integer
\* arithmetic gives the rows of the code's floating point
DailyProperties ==
    { q \in SeasonProperties : q.brand = "Wyndham" /\ q.market_tier = "Primary" }

\* lines 652-656: daily_occupancy before the clamp
DailyOccupancy(p, year, doy, event_demand_lift, daily_variation) ==
    LET seasonal == SeasonOccupancy(p, year, doy)
        lifted   == seasonal + (seasonal * event_demand_lift) \div 10000
    IN  (lifted * daily_variation) \div 100

\* line 669 without the factor seasonal_mult
Adr669Unseasonal(p, doy, event_adr_lift) ==
    BaseAdr(p) + (BaseAdr(p) * event_adr_lift) \div 10000

\* line 669: daily_adr = base_adr * seasonal_mult * (1 + event_adr_lift)
Adr669(p, doy, event_adr_lift) ==
    SeasonAdr(p, doy) + (SeasonAdr(p, doy) * event_adr_lift) \div 10000

\* the row of one iteration together with the loop's locals
DayRow(p, year, doy, impact, daily_variation, adr_variation) ==
    LET daily_occupancy == DailyOccupancy(p, year, doy, impact.event_demand_lift,
                                          daily_variation)
        adr_669 == Adr669(p, doy, impact.event_adr_lift)
    IN  DailyRow(p.room_count, daily_occupancy, adr_669, adr_variation) @@
        [ seasonal_mult     |-> get_seasonal_multiplier(DateMonth(doy), DateDay(doy), p.region),
          dow_mult          |-> get_day_of_week_multiplier(DateWeekday(year, doy), p.property_type),
          event_demand_lift |-> impact.event_demand_lift,
          event_adr_lift    |-> impact.event_adr_lift,
          daily_variation   |-> daily_variation,
          adr_variation     |-> adr_variation,
          daily_occupancy   |-> daily_occupancy ]

InitDaily ==
    /\ daily_performance_rows = <<>>
    /\ row_locals = <<>>
    /\ affected_log = <<>>
    /\ revpar_check = -1
    /\ season_property \in DailyProperties
    /\ season_year \in SeasonYears
    /\ season_day = 0
    /\ season_row = <<>>
    /\ month_revpar = <<>>
    /\ IdleEvents
    /\ IdleProps
    /\ IdlePipeline

\* one iteration of the while loop of line 637
GenerateDay ==
    /\ \E doy \in DaySamples, impact \in EventImpactSamples,
          daily_variation \in DailyVariationSamples,
          adr_variation \in DayAdrVariationSamples :
          /\ season_day' = doy
          /\ season_row' = DayRow(season_property, season_year, doy, impact,
                                  daily_variation, adr_variation)
    /\ UNCHANGED <<season_property, season_year, month_revpar,
                   daily_performance_rows, row_locals, affected_log,
                   revpar_check, eventVars, propVars, pipeVars>>

NextDaily == GenerateDay

SpecDaily == InitDaily /\ [][NextDaily]_vars

-----------------------------------------------------------------------------
(* Specification SpecEvents: generate_market_events (lines 369-456) walked  *)
(* one while-loop iteration at a time, then the event lookup of             *)
(* generate_daily_performance (lines 575-582, 642-649) over the written     *)
(* table.  Dates are day numbers, stored lifts are in 1/100 percent         *)
(* ("%.2f"), the unrounded lifts in 1/1000 percent; a lift of the lookup,   *)
(* pct / 100, is in 1/10000.                                                *)

MaxHorizon == 8         \* the horizon 2021-01-01 .. 2023-12-31, scaled down
MaxEvents == 2          \* events drawn in one run

\* lines 385-392
event_types ==
    [ Conference |-> [duration |-> 3,  impact |-> "Medium", adr_lift |-> 15],
      Sports     |-> [duration |-> 1,  impact |-> "High",   adr_lift |-> 25],
      Concert    |-> [duration |-> 1,  impact |-> "Medium", adr_lift |-> 20],
      Holiday    |-> [duration |-> 3,  impact |-> "High",   adr_lift |-> 30],
      Weather    |-> [duration |-> 2,  impact |-> "Low",    adr_lift |-> -10],
      Economic   |-> [duration |-> 30, impact |-> "High",   adr_lift |-> -20] ]

\* lines 416-423: the name of the event
event_names(city, event_type) ==
    CASE event_type = "Conference" -> <<city, "Business Summit">>
      [] event_type = "Sports"     -> <<city, "Championship Game">>
      [] event_type = "Concert"    -> <<city, "Music Festival">>
      [] event_type = "Holiday"    -> <<"Holiday Weekend">>
      [] event_type = "Weather"    -> <<"Severe Weather Event">>
      [] event_type = "Economic"   -> <<"Economic Disruption">>

\* lines 400-405, in 1/100: the tier is read off the upper-cased market_id
event_prob(market_id) ==
    IF market_id[2] = "Primary" THEN 15
    ELSE IF market_id[2] = "Secondary" THEN 10
    ELSE 5

\* values of random.random() in 1/100: below every event_prob, between them,
\* above all of them
RandomSamples == {3, 7, 12, 60}

\* values of random.randint(1, duration): both ends of the range
DurationSamples(duration) == {1, duration}

\* values of random.uniform(-5, 5) in 1/1000 percent
UniformSamples == {-5000, 1237, 5000}

\* f"{event_id_counter:05d}"
Format05d(counter) ==
    LET d == Digits(counter)
    IN  [i \in 1..(5 - Len(d)) |-> 0] \o d

\* float(f"{x:.2f}") of a lift given in 1/1000 percent, in 1/100 percent
Format2f(milli) == RoundDiv(milli, 10)

\* line 428 with the constant 0.8 left out
AdrLiftUndamped(demand_lift) == 10 * demand_lift

\* line 428: adr_lift = demand_lift * 0.8, in 1/10000 percent
AdrLift(demand_lift) == 8 * demand_lift

\* line 434, every event given its end_date
EndDateAlways(end, duration) == DateValue(end)

\* line 434: 'end_date': end_date if duration > 1 else None
EndDateField(end, duration) == IF duration > 1 THEN DateValue(end) ELSE NULL

\* lines 411-440: the event dict of one draw
EventData(market, date, counter, event_type, duration, noise) ==
    LET event_config == event_types[event_type]
        demand_lift  == 1000 * event_config.adr_lift + noise
    IN  [ event_id        |-> <<"EVT", Format05d(counter)>>,
          market_id       |-> market.market_id,
          event_date      |-> date,
          end_date        |-> EndDateField(date + duration - 1, duration),
          event_name      |-> event_names(market.city, event_type),
          event_type      |-> event_type,
          impact_rating   |-> event_config.impact,
          demand_lift_pct |-> Format2f(demand_lift),
          adr_lift_pct    |-> RoundDiv(AdrLift(demand_lift), 100) ]

\* rows of SELECT DISTINCT market_id, city, region FROM properties_master_raw
EventMarketSamples ==
    LET ny == [market_id |-> <<"NEWYORK", "Primary">>, city |-> "New York",
               region |-> "Northeast"]
        hf == [market_id |-> <<"HARTFORD", "Secondary">>, city |-> "Hartford",
               region |-> "Northeast"]
        wb == [market_id |-> <<"WATERBURY", "Tertiary">>, city |-> "Waterbury",
               region |-> "Northeast"]
    IN  { <<ny>>, <<hf, wb>> }

InitEvents ==
    /\ daily_performance_rows = <<>>
    /\ row_locals = <<>>
    /\ affected_log = <<>>
    /\ revpar_check = -1
    /\ IdleSeason
    /\ IdleProps
    /\ markets \in EventMarketSamples
    /\ market_i = 1
    /\ current_date = 1
    /\ events = <<>>
    /\ event_id_counter = 1
    /\ event_impact = <<>>
    /\ start_date = 1
    /\ end_date \in {MaxHorizon - 7, MaxHorizon}
    /\ pc = "events"
    /\ rerun = FALSE
    /\ existing = {"properties_master_raw"}
    /\ market_events_raw = <<>>
    /\ perf_i = 0
    /\ performance_data = <<>>
    /\ daily_performance_raw = <<>>
    /\ batch_start = 0
    /\ competitive_intelligence_raw = <<>>
    /\ sample_performance = <<>>
    /\ txn_i = 0
    /\ transactions = <<>>
    /\ transaction_counter = 0
    /\ batch_counter = 0
    /\ guest_transactions_raw = <<>>
    /\ curated = <<>>

eventRest == <<start_date, end_date, rerun, perfVars, ciVars, txnVars, curated,
               propVars, daily_performance_rows, row_locals, affected_log,
               revpar_check, seasonVars>>

\* one iteration of the while loop of line 398 in which an event is drawn
EventWeek ==
    /\ pc = "events"
    /\ market_i <= Len(markets)
    /\ current_date <= end_date
    /\ Len(events) < MaxEvents
    /\ \E r \in RandomSamples, event_type \in DOMAIN event_types, noise \in UniformSamples :
          /\ r < event_prob(markets[market_i].market_id)
          /\ \E duration \in DurationSamples(event_types[event_type].duration) :
                events' = Append(events,
                                 EventData(markets[market_i], current_date,
                                           event_id_counter, event_type,
                                           duration, noise))
    /\ event_id_counter' = event_id_counter + 1
    /\ current_date' = current_date + 7
    /\ UNCHANGED <<markets, market_i, event_impact, pc, existing,
                   market_events_raw, eventRest>>

\* an iteration in which random.random() is not below event_prob
EventWeekNoEvent ==
    /\ pc = "events"
    /\ market_i <= Len(markets)
    /\ current_date <= end_date
    /\ \E r \in RandomSamples : ~(r < event_prob(markets[market_i].market_id))
    /\ current_date' = current_date + 7
    /\ UNCHANGED <<markets, market_i, events, event_id_counter, event_impact,
                   pc, existing, market_events_raw, eventRest>>

\* the while loop ends; the for loop of line 395 takes the next market
EventNextMarket ==
    /\ pc = "events"
    /\ market_i <= Len(markets)
    /\ current_date > end_date
    /\ market_i' = market_i + 1
    /\ current_date' = start_date
    /\ UNCHANGED <<markets, events, event_id_counter, event_impact, pc,
                   existing, market_events_raw, eventRest>>

\* lines 449-453: the list is written in mode overwrite
WriteEvents ==
    /\ pc = "events"
    /\ market_i > Len(markets)
    /\ events # <<>>
    /\ market_events_raw' = events
    /\ existing' = existing \cup {"market_events_raw"}
    /\ pc' = "performance"
    /\ UNCHANGED <<eventVars, eventRest>>

\* no event was drawn: spark.createDataFrame([]) of line 449 raises
WriteEventsRaises ==
    /\ pc = "events"
    /\ market_i > Len(markets)
    /\ events = <<>>
    /\ pc' = "events_failed"
    /\ UNCHANGED <<eventVars, existing, market_events_raw, eventRest>>

\* lines 577-582: the events stored under the key (market_id, event_date)
events_by_market_date(market_id, date) ==
    SelectSeq(market_events_raw,
              LAMBDA event : event.market_id = market_id /\ event.event_date = date)

RECURSIVE SumLift(_, _)
SumLift(found, field) ==
    IF found = <<>> THEN 0
    ELSE found[1][field] + SumLift(Tail(found), field)

\* lines 642-649 for one (market_id, current_date)
EventImpact(market_id, date) ==
    LET found == events_by_market_date(market_id, date)
    IN  [ event_demand_lift |-> SumLift(found, "demand_lift_pct"),
          event_adr_lift    |-> SumLift(found, "adr_lift_pct") ]

\* generate_daily_performance reads the table and looks up every market and
\* date of the horizon
EventLookup ==
    /\ pc = "performance"
    /\ event_impact' =
          [ k \in {markets[i].market_id : i \in 1..Len(markets)}
                  \X (start_date..end_date) |-> EventImpact(k[1], k[2]) ]
    /\ pc' = "rows"
    /\ UNCHANGED <<markets, market_i, current_date, events, event_id_counter,
                   existing, market_events_raw, eventRest>>

NextEvents ==
    \/ EventWeek
    \/ EventWeekNoEvent
    \/ EventNextMarket
    \/ WriteEvents
    \/ WriteEventsRaises
    \/ EventLookup

SpecEvents == InitEvents /\ [][NextEvents]_vars

\* the cell runs on: a step that is enabled is eventually taken
SpecEventsFair == SpecEvents /\ WF_vars(NextEvents)

-----------------------------------------------------------------------------
(* Properties of generate_properties_master (SpecProps) *)

RECURSIVE SumTargets(_)
SumTargets(dist) ==
    IF dist = <<>> THEN 0
    ELSE dist[1].target_count + SumTargets(Tail(dist))

RECURSIVE SumModelTargets(_)
SumModelTargets(n) == IF n = 0 THEN 0 ELSE TargetCount(n) + SumModelTargets(n - 1)

ListedInRegion(r) == {i \in DOMAIN properties : properties[i].region = r}

WrittenInRegion(r) == {p \in properties_master_raw : p.region = r}

\* C5: when the loops of generate_properties_master are over, the list
\* holds exactly target_count properties of every region; the table written
\* from it holds the same counts; the targets of the code sum to the
\* configured property_count.
C5_RegionalCountsExact ==
    /\ SumTargets(regional_distribution) = property_count
    /\ pcP \in {"write", "done", "raised"} =>
          /\ \A i \in DOMAIN ModelRegions :
                Cardinality(ListedInRegion(ModelRegions[i].region)) = TargetCount(i)
          /\ Len(properties) = SumModelTargets(Len(ModelRegions))
    /\ pcP = "done" =>
          /\ \A i \in DOMAIN ModelRegions :
                Cardinality(WrittenInRegion(ModelRegions[i].region)) = TargetCount(i)
          /\ Cardinality(properties_master_raw) = SumModelTargets(Len(ModelRegions))

\* the table was written after a run in which iterations had raised and
\* been retried
C5_Witness ==
    /\ pcP = "done"
    /\ errors_caught > 0
    /\ Cardinality(WrittenInRegion("Northeast")) = MaxTarget
    /\ Cardinality(WrittenInRegion("Southeast")) = 1

\* a brand of the configuration that brand_profiles does not have
ConfigError == \E b \in config_brands : b \notin DOMAIN brand_profiles

\* C6: under a configuration error no property is generated or written.
C6_ConfigErrorFatal ==
    ConfigError => (properties = <<>> /\ properties_master_raw = {})

-----------------------------------------------------------------------------
(* Properties of the row arithmetic and of the RevPAR fix (SpecRows) *)

\* |revpar - adr * occupancy_rate| <= 0.01 on the stored values of a row
RowConsistent(r) ==
    /\ r.revpar * 10000 - r.adr * r.occupancy_rate <= 10000
    /\ r.adr * r.occupancy_rate - r.revpar * 10000 <= 10000

AllRowsConsistent ==
    \A i \in DOMAIN daily_performance_rows : RowConsistent(daily_performance_rows[i])

\* C1: once the RevPAR fix has run, every row of daily_performance_raw has
\* |revpar - adr * occupancy_rate| <= 0.01, and a validation that runs after
\* it counts zero incorrect rows.
C1_PostRepairConsistent ==
    affected_log # <<>> =>
        /\ AllRowsConsistent
        /\ revpar_check \in {-1, 0}

\* a table in which the generator wrote out-of-tolerance rows was repaired
\* and then validated
C1_Witness ==
    /\ affected_log # <<>>
    /\ affected_log[1] > 0
    /\ revpar_check = 0

\* C2: a run of the RevPAR fix over a table whose rows are all within the
\* tolerance reports zero updated rows and leaves every row as it was.
C2_RepairIdempotent ==
    [][ (Len(affected_log') = Len(affected_log) + 1 /\ AllRowsConsistent)
          => /\ daily_performance_rows' = daily_performance_rows
             /\ affected_log'[Len(affected_log')] = 0 ]_vars

\* the fix ran twice: the first run updated rows, the second ran over the
\* first run's output
C2_Witness ==
    /\ Len(affected_log) = 2
    /\ affected_log[1] > 0
    /\ affected_log[2] = 0

\* C3: every stored occupancy_rate lies in [0.15, 0.95].
C3_OccupancyWithinBounds ==
    \A i \in DOMAIN daily_performance_rows :
        /\ daily_performance_rows[i].occupancy_rate >= 1500
        /\ daily_performance_rows[i].occupancy_rate <= 9500

-----------------------------------------------------------------------------
(* Properties of the notebook's cells run in order (SpecPipeline)          *)

\* the days from start_date to end_date inclusive
HorizonDays == IF end_date >= start_date THEN end_date - start_date + 1 ELSE 0

\* the rows of daily_performance_raw with a given key
RowsOfKey(property_id, business_date) ==
    SelectSeq(daily_performance_raw,
              LAMBDA r : r.property_id = property_id
                         /\ r.business_date = business_date)

\* C4: when generate_daily_performance has finished, daily_performance_raw
\* holds exactly (properties) x (days of the horizon) rows and every
\* (property, date) pair of the horizon exactly once.
C4_ExactlyOneRowPerPropertyDate ==
    pc = "competitive" =>
        /\ Len(daily_performance_raw)
             = Cardinality(properties_master_raw) * HorizonDays
        /\ \A p \in properties_master_raw : \A d \in start_date..end_date :
              Len(RowsOfKey(p.property_id, d)) = 1

\* C7: after the notebook was run again over its populated tables, each
\* stage's table holds one row per key and not the rows of both runs: one
\* daily performance row per (property_id, business_date), one transaction
\* per transaction_id.
C7_StagesIdempotentUnderRerun ==
    (rerun /\ pc = "done") =>
        /\ \A i, j \in DOMAIN daily_performance_raw :
              (/\ daily_performance_raw[i].property_id
                    = daily_performance_raw[j].property_id
               /\ daily_performance_raw[i].business_date
                    = daily_performance_raw[j].business_date) => i = j
        /\ \A i, j \in DOMAIN guest_transactions_raw :
              guest_transactions_raw[i].transaction_id
                = guest_transactions_raw[j].transaction_id => i = j

\* is the record in the table
InTable(record, table) == \E i \in DOMAIN table : table[i] = record

\* C8: delivery per stage is all-or-nothing. When
\* generate_competitive_intelligence has finished normally every record it
\* generated is in competitive_intelligence_raw, and a first run that failed
\* inside generate_daily_performance has left no row in daily_performance_raw.
C8_AllOrNothingPerStage ==
    /\ pc = "transactions" =>
          LET generated == CompetitiveBatchFrom(1, Cardinality(Markets))
          IN  \A i \in DOMAIN generated :
                 InTable(generated[i], competitive_intelligence_raw)
    /\ (pc = "performance_failed" /\ ~ rerun) => daily_performance_raw = <<>>

\* C9: after the curated load, a non-empty guest_transactions_raw gives a
\* non-empty curated guest_transactions table holding every staged
\* transaction that is not a no-show.
C9_CuratedTransactionsDelivered ==
    pc = "done" =>
        /\ guest_transactions_raw # <<>> => curated.guest_transactions # <<>>
        /\ \A i \in DOMAIN guest_transactions_raw :
              guest_transactions_raw[i].no_show = FALSE
                 => InTable(guest_transactions_raw[i], curated.guest_transactions)

\* daily_performance_raw has one row per (property_id, business_date)
OneRowPerPair ==
    \A i, j \in DOMAIN daily_performance_raw :
        (/\ daily_performance_raw[i].property_id = daily_performance_raw[j].property_id
         /\ daily_performance_raw[i].business_date = daily_performance_raw[j].business_date)
            => i = j

\* the rows of competitive_intelligence_raw with a given key
CompetitiveRowsOfKey(property_id, business_date) ==
    SelectSeq(competitive_intelligence_raw,
              LAMBDA r : r.property_id = property_id
                         /\ r.business_date = business_date)

\* C11: when generate_competitive_intelligence has finished over a
\* daily_performance_raw with one row per (property_id, business_date), its
\* table holds exactly one row for every such pair.
C11_OneCompetitiveRowPerPropertyDate ==
    (pc = "transactions" /\ OneRowPerPair) =>
        \A i \in DOMAIN daily_performance_raw :
            Len(CompetitiveRowsOfKey(daily_performance_raw[i].property_id,
                                     daily_performance_raw[i].business_date)) = 1

-----------------------------------------------------------------------------
(* Properties of the competitive measures (SpecCompetitive)                *)

\* C10: in every competitive intelligence record revpar_index is
\* wyndham_revpar / market_revpar x 100 and adr_index is wyndham_adr /
\* market_adr x 100, both rounded to 2 decimals; the market values being the
\* subject values divided by the drawn factors, the indices are 100 x the
\* factors, so revpar_index lies in [85, 115] and adr_index in [90, 110].
C10_IndexFormulasAndRanges ==
    \A i \in DOMAIN competitive_intelligence_raw :
        LET r == competitive_intelligence_raw[i]
        IN  /\ r.revpar_index = 100 * r.market_factor
            /\ r.adr_index = 100 * r.adr_factor
            /\ r.market_revpar
                 = RoundDiv(r.wyndham_revpar[1] * 100,
                            r.wyndham_revpar[2] * r.market_factor)
            /\ r.revpar_index >= 8500 /\ r.revpar_index <= 11500
            /\ r.adr_index >= 9000 /\ r.adr_index <= 11000

\* two groups were generated, one of them of two properties, with the
\* RevPAR factor at both ends of its range and the ADR factor at both ends
C10_Witness ==
    /\ \E i \in DOMAIN competitive_intelligence_raw :
          /\ competitive_intelligence_raw[i].revpar_index = 11500
          /\ competitive_intelligence_raw[i].adr_index = 9000
          /\ competitive_intelligence_raw[i].wyndham_revpar[2] > 1
    /\ \E i \in DOMAIN competitive_intelligence_raw :
          /\ competitive_intelligence_raw[i].revpar_index = 8500
          /\ competitive_intelligence_raw[i].adr_index = 11000

\* rows of one (market_id, business_date) carry the same market values
RowsOfGroupShareMarketValues ==
    \A i, j \in DOMAIN competitive_intelligence_raw :
        LET r == competitive_intelligence_raw[i]
            q == competitive_intelligence_raw[j]
        IN  (r.market_id = q.market_id /\ r.business_date = q.business_date) =>
               /\ r.market_occupancy = q.market_occupancy
               /\ r.market_adr = q.market_adr
               /\ r.market_revpar = q.market_revpar
               /\ r.penetration_index = q.penetration_index
               /\ r.adr_index = q.adr_index
               /\ r.revpar_index = q.revpar_index
               /\ r.market_room_nights = q.market_room_nights
               /\ r.fair_share_rooms = q.fair_share_rooms

\* the subject room-nights of a record's group, in 1/10000 room-night:
\* total_rooms x the room-weighted subject occupancy
SubjectRoomNights(r) == (r.total_rooms * r.wyndham_occ[1]) \div r.wyndham_occ[2]

-----------------------------------------------------------------------------
(* Properties of generate_realistic_guest_transactions (SpecTransactions)  *)

\* the transactions generated so far by the run: saved, and still buffered
\* while the loop runs (the final save leaves its batch in the buffer)
StagedCount ==
    IF pc = "revpar_fix" THEN Len(guest_transactions_raw)
    ELSE Len(guest_transactions_raw) + Len(transactions)

ClampTo(x, lo, hi) == IF x < lo THEN lo ELSE IF x > hi THEN hi ELSE x

\* clamp(round(rooms_sold / 1.8), 2, 8) summed over the first n sampled nights
RECURSIVE RoundedClampTotal(_)
RoundedClampTotal(n) ==
    IF n = 0 THEN 0
    ELSE ClampTo(RoundDiv(sample_performance[n].rooms_sold * 5, 9), 2, 8)
         + RoundedClampTotal(n - 1)

\* clamp(floor(rooms_sold / 1.8), 2, cap), cap = 8 above 20 rooms sold and 5
\* otherwise, summed over the first n sampled nights
RECURSIVE FloorCapTotal(_)
FloorCapTotal(n) ==
    IF n = 0 THEN 0
    ELSE ClampTo((sample_performance[n].rooms_sold * 5) \div 9, 2,
                 IF sample_performance[n].rooms_sold > 20 THEN 8 ELSE 5)
         + FloorCapTotal(n - 1)

\* C13 (as stated): every sampled property-night that was processed yielded
\* clamp(round(rooms_sold / 1.8), 2, 8) transactions.
C13_TransactionsPerNightRounded ==
    pc \in {"transaction_loop", "revpar_fix"} =>
        /\ StagedCount = RoundedClampTotal(txn_i - 1)
        /\ transaction_counter = 1 + RoundedClampTotal(txn_i - 1)

\* C13 (amended): every sampled property-night that was processed yielded
\* clamp(floor(rooms_sold / 1.8), 2, cap) transactions, where cap is 8 when
\* rooms_sold > 20 and 5 otherwise.
C13_TransactionsPerNightFloorAndCap ==
    pc \in {"transaction_loop", "revpar_fix"} =>
        /\ StagedCount = FloorCapTotal(txn_i - 1)
        /\ transaction_counter = 1 + FloorCapTotal(txn_i - 1)

\* a night of 12 rooms sold was processed and yielded 5 transactions
C13_Witness ==
    /\ pc = "transaction_loop"
    /\ txn_i = 2
    /\ sample_performance[1].rooms_sold = 12
    /\ Len(transactions) = 5

\* the transactions generated so far by the run
StagedTransactions ==
    IF pc = "revpar_fix" THEN guest_transactions_raw
    ELSE guest_transactions_raw \o transactions

\* the generated transactions of one property-night
TransactionsOfNight(perf) ==
    SelectSeq(StagedTransactions,
              LAMBDA t : t.property_id = perf.property_id
                         /\ t.business_date = perf.business_date)

-----------------------------------------------------------------------------
(* Properties of room counts and property ids (SpecProps) *)

InBrandRange(p) ==
    /\ brand_profiles[p.brand].min_rooms <= p.room_count
    /\ p.room_count <= brand_profiles[p.brand].max_rooms

\* widths of hypothetical room ranges, odd ones among them
MaxRangeWidth == 5

\* both branches of lines 260-263 return values of min_rooms..max_rooms and
\* can return one
BranchesWithin(min_rooms, max_rooms) ==
    \A smaller \in BOOLEAN :
        /\ RandintBranch(min_rooms, max_rooms, smaller) # {}
        /\ RandintBranch(min_rooms, max_rooms, smaller) \subseteq min_rooms..max_rooms

\* C18: every generated and every written property has a room_count inside
\* the inclusive room_range of its brand; both branches of the draw stay
\* inside the range for every brand of brand_profiles and for ranges of
\* every width 0..MaxRangeWidth, odd widths included.
C18_RoomCountWithinBrandRange ==
    /\ \A i \in DOMAIN properties : InBrandRange(properties[i])
    /\ \A p \in properties_master_raw : InBrandRange(p)
    /\ \A i \in DOMAIN properties : \E smaller \in BOOLEAN :
          properties[i].room_count \in
              RandintBranch(brand_profiles[properties[i].brand].min_rooms,
                            brand_profiles[properties[i].brand].max_rooms, smaller)
    /\ \A b \in DOMAIN brand_profiles :
          BranchesWithin(brand_profiles[b].min_rooms, brand_profiles[b].max_rooms)
    /\ \A b \in DOMAIN brand_profiles, w \in 0..MaxRangeWidth :
          BranchesWithin(brand_profiles[b].min_rooms, brand_profiles[b].min_rooms + w)

\* the written table holds a property at the top of its brand's range (an
\* outcome of the larger half only) and one at the bottom (smaller half)
C18_Witness ==
    /\ pcP = "done"
    /\ \E p \in properties_master_raw : p.room_count = brand_profiles[p.brand].max_rooms
    /\ \E p \in properties_master_raw : p.room_count = brand_profiles[p.brand].min_rooms

\* sequence numbers around the widths of "%03d", up to past property_count
SequenceSamples == {1, 9, 10, 99, 100, 101, 900, 999, 1000, 1001}

\* C19: the ids of the generated properties are pairwise different; the id
\* of the k-th appended property is WYN_<brand code>_<region code>_<k>, the
\* counter being one more than the number of properties appended so far
\* whatever the region and however many iterations raised; different
\* sequence numbers are formatted differently.
C19_PropertyIdsUnique ==
    /\ \A m, n \in SequenceSamples :
          /\ m # n => Format03d(m) # Format03d(n)
          /\ DigitsValue(Format03d(m)) = m
    /\ \A i, j \in DOMAIN properties :
          i # j => properties[i].property_id # properties[j].property_id
    /\ \A i \in DOMAIN properties :
          properties[i].property_id =
              <<"WYN", brand_codes[properties[i].brand],
                region_codes[properties[i].region], Format03d(i)>>
    /\ pcP # "idle" => property_id_counter = Len(properties) + 1
    /\ Cardinality({p.property_id : p \in properties_master_raw})
          = Cardinality(properties_master_raw)

\* the same brand was drawn twice in the same region, in a run in which an
\* iteration had raised, and the table was written
C19_Witness ==
    /\ pcP = "done"
    /\ errors_caught > 0
    /\ \E i, j \in DOMAIN properties :
          /\ i # j
          /\ properties[i].brand = properties[j].brand
          /\ properties[i].region = properties[j].region
    /\ \E i \in DOMAIN properties : properties[i].region = "Southeast"

-----------------------------------------------------------------------------
(* Properties of the guards of generate_competitive_intelligence           *)
(* (SpecCompetitiveGuards)                                                 *)

RowsOfMarket(m) == SelectSeq(daily_performance_raw, LAMBDA r : r.market_id = m)

RowsOfMarketDate(m, d) ==
    SelectSeq(daily_performance_raw, LAMBDA r : r.market_id = m /\ r.business_date = d)

RecordsOfMarketDate(m, d) ==
    SelectSeq(competitive_intelligence_raw,
              LAMBDA r : r.market_id = m /\ r.business_date = d)

DefaultIndex == 10000

\* C20: of the markets the loop has gone through, a market without joined
\* rows and a (market, date) group whose room counts are all zero have no
\* record in the output while every other group has one record per row (the
\* loop went on after the skip); a record whose market_revpar, market_adr or
\* fair_share_rooms is zero carries 100 as the index that would divide by it.
C20_EmptyMarketsAndZeroGuards ==
    /\ \A k \in 1..batch_start :
          LET m == GuardMarkets[k]
          IN  /\ RowsOfMarket(m) = <<>> =>
                    \A i \in DOMAIN competitive_intelligence_raw :
                        competitive_intelligence_raw[i].market_id # m
              /\ \A d \in GuardDates :
                    LET g == RowsOfMarketDate(m, d)
                    IN  IF \A i \in DOMAIN g : g[i].room_count = 0
                        THEN RecordsOfMarketDate(m, d) = <<>>
                        ELSE Len(RecordsOfMarketDate(m, d)) = Len(g)
    /\ \A i \in DOMAIN competitive_intelligence_raw :
          LET r == competitive_intelligence_raw[i]
          IN  /\ r.wyndham_revpar[1] = 0 => r.revpar_index = DefaultIndex
              /\ r.wyndham_adr[1] = 0 => r.adr_index = DefaultIndex
              /\ r.fair_share_rooms = 0 => r.penetration_index = DefaultIndex

\* both markets have been gone through: the first had no rows, the second
\* had a date with zero rooms in total, which left no record, and a later
\* date with nothing sold, whose record carries the three defaults
C20_Witness ==
    /\ batch_start = Len(GuardMarkets)
    /\ RowsOfMarket(GuardMarkets[1]) = <<>>
    /\ RowsOfMarketDate(GuardMarkets[2], 1) # <<>>
    /\ RecordsOfMarketDate(GuardMarkets[2], 1) = <<>>
    /\ \E i \in DOMAIN competitive_intelligence_raw :
          LET r == competitive_intelligence_raw[i]
          IN  /\ r.business_date = 2
              /\ r.market_revpar = 0
              /\ r.market_adr = 0
              /\ r.fair_share_rooms = 0
              /\ r.revpar_index = DefaultIndex
              /\ r.adr_index = DefaultIndex
              /\ r.penetration_index = DefaultIndex

-----------------------------------------------------------------------------
(* Properties of the stored row's room fields (SpecRows) *)

\* rooms_sold is the integer part of clamped occupancy x room_count
IsFloorOfClamped(rooms_sold, l) ==
    /\ rooms_sold * 10000 <= ClampOccupancy(l.daily_occupancy) * l.room_count
    /\ ClampOccupancy(l.daily_occupancy) * l.room_count < (rooms_sold + 1) * 10000

\* stored (1/10000) is rooms_sold / rooms_available to the nearest 1/10000
IsRoundedRatio(stored, rooms_sold, rooms_available) ==
    2 * Abs(stored * rooms_available - rooms_sold * 10000) <= rooms_available

\* C16: in every stored row rooms_available is the property's room_count,
\* rooms_sold is the integer part of clamped occupancy x room_count and
\* lies in 0..rooms_available, and occupancy_rate is
\* rooms_sold / rooms_available rounded to 4 decimals.
C16_RoomFieldsOfStoredRow ==
    \A i \in DOMAIN daily_performance_rows :
        LET r == daily_performance_rows[i]
            l == row_locals[i]
        IN  /\ r.rooms_available = l.room_count
            /\ IsFloorOfClamped(r.rooms_sold, l)
            /\ 0 <= r.rooms_sold
            /\ r.rooms_sold <= r.rooms_available
            /\ IsRoundedRatio(r.occupancy_rate, r.rooms_sold, r.rooms_available)

\* a row whose occupancy was cut to 0.95 and whose product with the room
\* count (57.95) is not an integer, and a row whose occupancy was raised to
\* 0.15 (9.15 rooms), the second after the RevPAR fix has run
C16_Witness ==
    /\ Len(daily_performance_rows) = 2
    /\ row_locals[1].daily_occupancy > OccMax
    /\ row_locals[1].room_count = 61
    /\ daily_performance_rows[1].rooms_sold = 57
    /\ daily_performance_rows[1].occupancy_rate = 9344
    /\ row_locals[2].daily_occupancy < OccMin
    /\ daily_performance_rows[2].rooms_sold = 9
    /\ affected_log # <<>>

-----------------------------------------------------------------------------
(* Properties of the stored row's revenue fields (SpecRows) *)

\* the three stored components add up to the stored total within 0.02, none
\* is negative and the total is not below the room revenue
RevenueTotalConsistent(r) ==
    /\ r.revenue_fb >= 0
    /\ r.revenue_other >= 0
    /\ Abs(r.revenue_total - (r.revenue_rooms + r.revenue_fb + r.revenue_other)) <= 2
    /\ r.revenue_total >= r.revenue_rooms

AllRevenueTotalsConsistent ==
    \A i \in DOMAIN daily_performance_rows :
        RevenueTotalConsistent(daily_performance_rows[i])

\* C17: in every stored row revenue_rooms is rooms_sold x adr, revenue_fb and
\* revenue_other are not negative, revenue_total is the sum of the three
\* components and is at least revenue_rooms (stored values compared within
\* 0.02).
C17_RevenueFieldsConsistent ==
    \A i \in DOMAIN daily_performance_rows :
        LET r == daily_performance_rows[i]
        IN  /\ Abs(r.revenue_rooms - r.rooms_sold * r.adr) <= 2
            /\ RevenueTotalConsistent(r)

-----------------------------------------------------------------------------
(* Properties of the seasonal pattern (SpecSeason) *)

SummerMonths == {6, 7, 8}
WinterMonths == {12, 1, 2}

YearGenerated == season_day = 366

\* the clamp of lines 659-662 acted on some date of the year
ClampActedInYear ==
    \E d \in 1..365 : SeasonOccupancy(season_property, season_year, d) > OccMax

\* C15: once a full year of a property has been generated with the noise
\* factors at 1.0 and no events, the average stored RevPAR of each of June,
\* July and August is strictly higher than the average stored RevPAR of each
\* of December, January and February (averages compared by cross
\* multiplication of month totals and month lengths).
C15_SummerRevparAboveWinter ==
    YearGenerated =>
        \A s \in SummerMonths, w \in WinterMonths :
            month_revpar[s] * DaysInMonth[w] > month_revpar[w] * DaysInMonth[s]

\* a finished year in which the occupancy clamp acted and the December
\* holiday override was the multiplier of the last row (December 31)
C15_Witness ==
    /\ YearGenerated
    /\ ClampActedInYear
    /\ base_multiplier(12, 31) = 1400
    /\ season_row.rooms_sold > 0
    /\ month_revpar[12] > 0

\* the date of the row generated last
LastDay == season_day - 1

\* the dates the holiday windows Dec 20-31 and Jan 1-7 cover
InHolidayWindow(month, day) ==
    \/ month = 12 /\ day >= 20
    \/ month = 1 /\ day <= 7

\* C21: for the date of every generated row the multiplier before regional
\* dampening is 1.5 on July 4, 1.3 on the other dates of June-August, at
\* least the peak value 1.3 on Dec 20-31 and Jan 1-7, 0.75 on the other
\* dates of December-February and 1.0 in the shoulder months; the value of
\* a 'moderate' region is 1 + 0.7 x (base - 1) and is never farther from 1.0
\* than the value of a 'high' region.
C21_SeasonalMultiplierTable ==
    season_day > 1 =>
        LET month == DateMonth(LastDay)
            day   == DateDay(LastDay)
            b     == base_multiplier(month, day)
            high  == get_seasonal_multiplier(month, day, "Southeast")
            moderate == get_seasonal_multiplier(month, day, "Northeast")
        IN  /\ IF month = 7 /\ day = 4 THEN b = 1500
               ELSE IF month \in {6, 7, 8} THEN b = 1300
               ELSE IF InHolidayWindow(month, day) THEN b >= 1300
               ELSE IF month \in {12, 1, 2} THEN b = 750
               ELSE b = 1000
            /\ high = b
            /\ 10 * (moderate - 1000) = 7 * (b - 1000)
            /\ Abs(moderate - 1000) <= Abs(high - 1000)

-----------------------------------------------------------------------------
(* Properties of the market events and of their lookup (SpecEvents) *)

\* the events whose interval [event_date, end_date] holds the date
events_active_on(market_id, date) ==
    SelectSeq(market_events_raw,
              LAMBDA event : /\ event.market_id = market_id
                             /\ event.event_date <= date
                             /\ date <= (IF event.end_date = NULL
                                         THEN event.event_date
                                         ELSE event.end_date[1]))

\* C22: once generate_daily_performance has looked the events up, the lifts
\* of every (market_id, business_date) of the horizon are the sums of
\* demand_lift_pct / 100 and adr_lift_pct / 100 over all events active on
\* that date, that is, over every event whose [event_date, end_date] holds it.
C22_EventLiftOnEveryActiveDate ==
    pc = "rows" =>
        \A k \in DOMAIN event_impact :
            LET active == events_active_on(k[1], k[2])
            IN  /\ event_impact[k].event_demand_lift = SumLift(active, "demand_lift_pct")
                /\ event_impact[k].event_adr_lift = SumLift(active, "adr_lift_pct")

-----------------------------------------------------------------------------
(* Properties of one day's ADR and occupancy (SpecDaily) *)

\* the stored ADR (cents) of the generated row when base ADR is multiplied
\* by the given seasonal factor (1/1000), by 1 + event_adr_lift, by the
\* re-pricing factor and by the ADR noise
StoredAdrWith(seasonal) ==
    LET seasoned == (BaseAdr(season_property) * seasonal) \div 1000
        lifted   == seasoned + (seasoned * season_row.event_adr_lift) \div 10000
        repriced == (lifted * RepriceTenths(season_row.rooms_sold,
                                            season_property.room_count)) \div 10
    IN  RoundDiv((repriced * season_row.adr_variation) \div 100, 10)

\* pre-clamp occupancy = base occupancy x seasonal x day-of-week x
\* (1 + event_demand_lift) x occupancy noise
OccupancyIsProduct ==
    LET seasonal == (BaseOccupancy(season_property) * season_row.seasonal_mult
                        * season_row.dow_mult) \div 10000
        lifted   == seasonal + (seasonal * season_row.event_demand_lift) \div 10000
    IN  season_row.daily_occupancy = (lifted * season_row.daily_variation) \div 100

\* C23 (as stated): the daily ADR of every generated row is base ADR x
\* (1 + event adr lift) x ADR noise x re-pricing factor, independent of the
\* date's seasonal multiplier, and its pre-clamp occupancy is base occupancy
\* x seasonal x day-of-week x (1 + event demand lift) x occupancy noise.
C23_AdrIndependentOfSeason ==
    season_day > 0 =>
        /\ season_row.adr = StoredAdrWith(1000)
        /\ OccupancyIsProduct

\* C23 (amended): the daily ADR of every generated row is base ADR x the
\* date's seasonal multiplier x (1 + event adr lift) x re-pricing factor x
\* ADR noise; only the day-of-week multiplier is confined to occupancy, which
\* before the clamp is base occupancy x seasonal x day-of-week x
\* (1 + event demand lift) x occupancy noise.
C23_AdrScaledBySeason ==
    season_day > 0 =>
        /\ season_row.adr = StoredAdrWith(season_row.seasonal_mult)
        /\ OccupancyIsProduct

\* a row of July 4 in a region of moderate seasonality under an event with
\* negative lifts, with both noise factors and the re-pricing factor other
\* than 1
C23_Witness ==
    /\ season_day = 185
    /\ season_row.seasonal_mult = 1350
    /\ season_row.event_adr_lift < 0
    /\ season_row.event_demand_lift < 0
    /\ season_row.adr_variation # 100
    /\ season_row.daily_variation # 100
    /\ RepriceTenths(season_row.rooms_sold, season_property.room_count) # 10
    /\ season_row.adr # StoredAdrWith(1000)

-----------------------------------------------------------------------------
(* Properties of the demand-based re-pricing (SpecRows) *)

\* the factor the row's ADR was multiplied by is 1.1 iff rooms_sold /
\* room_count > 0.85, 0.9 iff it is < 0.50, and 1 otherwise
RepricedOnActual(i) ==
    LET r == daily_performance_rows[i]
        l == row_locals[i]
        factor == IF r.rooms_sold * 100 > 85 * l.room_count THEN 11
                  ELSE IF r.rooms_sold * 100 < 50 * l.room_count THEN 9
                  ELSE 10
    IN  /\ r.rooms_sold = (ClampOccupancy(l.daily_occupancy) * l.room_count) \div 10000
        /\ l.daily_adr = (((l.adr_669 * factor) \div 10) * l.adr_variation) \div 100

\* revpar and revenue_rooms of the generated row come from the adjusted ADR
RevenueFromAdjustedAdr(i) ==
    LET r == daily_performance_rows[i]
        l == row_locals[i]
    IN  /\ r.adr = RoundDiv(l.daily_adr, 10)
        /\ r.revpar = RoundDiv(l.daily_adr * r.rooms_sold, l.room_count * 10)
        /\ r.revenue_rooms = RoundDiv(r.rooms_sold * l.daily_adr, 10)

\* C24: in every generated row the re-pricing is decided on the actual
\* occupancy rooms_sold / room_count, not on the clamped occupancy before the
\* floor: ADR x 1.1 iff actual occupancy > 0.85, x 0.9 iff it is < 0.50,
\* unchanged in between; the stored revpar and revenue_rooms are computed
\* from the ADR after this adjustment.
C24_RepricingOnActualOccupancy ==
    affected_log = <<>> =>
        \A i \in 1..Len(daily_performance_rows) :
            RepricedOnActual(i) /\ RevenueFromAdjustedAdr(i)

\* two rows whose floor moves the occupancy across a threshold: the first is
\* clamped to at least 0.50 and sold below 0.50 (discounted), the second is
\* clamped above 0.85 and sold at 0.85 exactly (not re-priced)
C24_Witness ==
    /\ affected_log = <<>>
    /\ Len(daily_performance_rows) = 2
    /\ ClampOccupancy(row_locals[1].daily_occupancy) >= 5000
    /\ daily_performance_rows[1].rooms_sold * 100 < 50 * row_locals[1].room_count
    /\ row_locals[1].daily_adr =
          (((row_locals[1].adr_669 * 9) \div 10) * row_locals[1].adr_variation) \div 100
    /\ ClampOccupancy(row_locals[2].daily_occupancy) > 8500
    /\ daily_performance_rows[2].rooms_sold * 100 = 85 * row_locals[2].room_count
    /\ row_locals[2].daily_adr =
          (row_locals[2].adr_669 * row_locals[2].adr_variation) \div 100

-----------------------------------------------------------------------------
(* Properties of the place of the RevPAR fix among the cells (SpecPipeline) *)

\* every row of daily_performance_raw has |revpar - adr * occupancy_rate| <= 0.01
AllRevparRepaired ==
    \A i \in 1..Len(daily_performance_raw) : ~NeedsRepair(daily_performance_raw[i])

\* the rows copied into main.wyndham_curated.daily_performance are repaired
CuratedLoadReadsRepaired == [][LoadCurated => AllRevparRepaired]_vars

\* C25: whenever generate_competitive_intelligence joins and aggregates the
\* rows of daily_performance_raw, and whenever the curated load copies them,
\* the RevPAR fix has already run: every row read satisfies
\* |revpar - adr * occupancy_rate| <= 0.01.
C25_RepairBeforeLaterReads ==
    [][(CompetitiveBatch \/ CompetitiveBatchSaveRaises \/ LoadCurated)
           => AllRevparRepaired]_vars

\* the configured adr_lift of the event's type, in 1/100 percent
BaseLift(e) == 100 * event_types[e.event_type].adr_lift

\* both lifts of the event have the sign of the type's configured adr_lift
LiftsHaveSignOfType(e) ==
    IF BaseLift(e) < 0
    THEN e.adr_lift_pct < 0 /\ e.demand_lift_pct < 0
    ELSE e.adr_lift_pct > 0 /\ e.demand_lift_pct > 0

\* C26 (as stated): the adr_lift_pct of every emitted event is the configured
\* adr_lift of its type plus a noise term in [-5, 5]; it is negative for
\* Weather and Economic events and positive for the other types, and
\* demand_lift_pct has the same sign.
C26_AdrLiftIsBasePlusNoise ==
    \A i \in 1..Len(events) :
        /\ Abs(events[i].adr_lift_pct - BaseLift(events[i])) <= 500
        /\ LiftsHaveSignOfType(events[i])

\* C26 (amended): the demand_lift_pct of every emitted event is the
\* configured adr_lift of its type plus a noise term in [-5, 5], and its
\* adr_lift_pct is 0.8 x that demand lift, both rounded to 2 decimals (so
\* adr_lift_pct is within 0.009 of 0.8 x demand_lift_pct); both are negative
\* for Weather and Economic events and positive for the other types.
C26_AdrLiftIsDampedDemandLift ==
    \A i \in 1..Len(events) :
        /\ Abs(events[i].demand_lift_pct - BaseLift(events[i])) <= 500
        /\ Abs(10 * events[i].adr_lift_pct - 8 * events[i].demand_lift_pct) <= 9
        /\ LiftsHaveSignOfType(events[i])

\* a Weather event with noise +5 (lifts -5.00 and -4.00) followed by a
\* Conference event with noise 1.237 (lifts 16.24 and 12.99)
C26_Witness ==
    /\ Len(events) = 2
    /\ events[1].event_type = "Weather"
    /\ events[1].demand_lift_pct = -500
    /\ events[1].adr_lift_pct = -400
    /\ events[2].event_type = "Conference"
    /\ events[2].demand_lift_pct = 1624
    /\ events[2].adr_lift_pct = 1299

\* the events emitted so far lie on the weekly grid of the horizon, start at
\* most once per (market_id, event_date), carry distinct event ids, and have
\* no end_date or one that is later than event_date by at most the type's
\* configured duration minus one day
EventsOnWeeklyGrid ==
    /\ \A i \in 1..Len(events) :
          LET e == events[i]
          IN  /\ (e.event_date - start_date) % 7 = 0
              /\ start_date <= e.event_date /\ e.event_date <= end_date
              /\ \/ e.end_date = NULL
                 \/ /\ e.end_date # NULL
                    /\ e.end_date[1] > e.event_date
                    /\ e.end_date[1] - e.event_date <= event_types[e.event_type].duration - 1
    /\ \A i, j \in 1..Len(events) :
          i # j => /\ events[i].event_id # events[j].event_id
                   /\ ~(/\ events[i].market_id = events[j].market_id
                        /\ events[i].event_date = events[j].event_date)

\* the for loop over the markets has ended
EventLoopsEnded == market_i > Len(markets)

\* C27: every event_date is start_date + 7k inside [start_date, end_date], at
\* most one event starts per (market_id, event_date), event ids are unique,
\* end_date is absent or later than event_date by at most the configured
\* duration minus one day, and the while loop of every market terminates.
C27_WeeklyWalkTerminates == []EventsOnWeeklyGrid /\ <>EventLoopsEnded

\* the loops have ended after two events of one market, a 1-day event on the
\* first date and an Economic event of 30 days on the date a week later
C27_Witness ==
    /\ EventLoopsEnded
    /\ Len(events) = 2
    /\ events[1].market_id = events[2].market_id
    /\ events[1].event_date = start_date
    /\ events[1].end_date = NULL
    /\ events[2].event_date = start_date + 7
    /\ events[2].end_date = DateValue(start_date + 7 + 29)

-----------------------------------------------------------------------------
(* Properties of the row buffer of generate_daily_performance              *)
(* (SpecPerformance)                                                       *)

\* the buffer never holds more than batch_size - 1 + (days in horizon) rows
BufferBounded == Len(performance_data) <= PerfBatchSize - 1 + HorizonDays

\* an iteration of the property loop that did not raise: the rows of the
\* property join the buffer; if that brings it to batch_size or more, all of
\* it is appended to the table and the buffer is emptied, otherwise the table
\* is left alone
FlushAtBatchSize ==
    (pc = "performance" /\ perf_i' = perf_i + 1) =>
        \E smp \in PipelineRowSamples :
            LET rows == PropertyDailyData(InSequenceOrder(properties_master_raw)[perf_i],
                                          start_date, smp)
            IN  IF Len(performance_data) + Len(rows) >= PerfBatchSize
                THEN /\ performance_data' = <<>>
                     /\ daily_performance_raw' =
                            daily_performance_raw \o performance_data \o rows
                ELSE /\ performance_data' = performance_data \o rows
                     /\ daily_performance_raw' = daily_performance_raw

\* the function returns: what is left in the buffer is appended to the table
FinalBatchWritten ==
    (pc = "performance" /\ pc' = "competitive") =>
        daily_performance_raw' = daily_performance_raw \o performance_data

\* the indices of the table's rows of one (property_id, business_date)
WrittenRows(property_id, business_date) ==
    { i \in 1..Len(daily_performance_raw) :
        /\ daily_performance_raw[i].property_id = property_id
        /\ daily_performance_raw[i].business_date = business_date }

\* after the function has returned in a first run, the table holds exactly
\* one row for every property and date of the horizon, and nothing else
EveryRowWrittenOnce ==
    (pc = "competitive" /\ ~rerun) =>
        /\ \A q \in properties_master_raw : \A d \in start_date..end_date :
              Cardinality(WrittenRows(q.property_id, d)) = 1
        /\ Len(daily_performance_raw) = Cardinality(properties_master_raw) * HorizonDays

\* C28: the row buffer is flushed after any property whose rows bring it to
\* batch_size or more and is emptied by each flush, so it never holds more
\* than batch_size - 1 + (days in horizon) rows; when the function returns
\* without error every generated row has been written to
\* daily_performance_raw exactly once.
C28_BufferFlushedAndRowsWrittenOnce ==
    /\ []BufferBounded
    /\ [][FlushAtBatchSize /\ FinalBatchWritten]_vars
    /\ []EveryRowWrittenOnce

\* a first run has returned after a flush at batch_size and the write of a
\* final batch smaller than batch_size (three properties, one date)
C28_Witness ==
    /\ pc = "competitive"
    /\ ~rerun
    /\ Cardinality(properties_master_raw) = 3
    /\ HorizonDays = 1
    /\ Len(daily_performance_raw) = 3
    /\ Len(performance_data) = 1

-----------------------------------------------------------------------------
(* market_id and the market lists (SpecProps) *)

GeneratedProperties == {properties[i] : i \in DOMAIN properties}

\* the market_id of a property is the normalised name of its city with its
\* market tier
MarketIdFromCityAndTier ==
    \A p \in GeneratedProperties :
        \E c \in all_cities :
            /\ c.city = p.city
            /\ c.region = p.region
            /\ c.market_tier = p.market_tier
            /\ p.market_id = <<c.norm, p.market_tier>>

SameMarketIffSameCityAndTier ==
    \A p, q \in GeneratedProperties :
        (p.market_id = q.market_id)
            <=> (p.city = q.city /\ p.market_tier = q.market_tier)

\* no two cities of cities_by_region give the same market_id
CatalogMarketsDistinct ==
    \A a, b \in all_cities : MarketId(a) = MarketId(b) => a = b

OneRowPerMarket(rows) ==
    \A r, s \in rows : r.market_id = s.market_id => r = s

EveryMarketHasProperty(rows, table) ==
    \A r \in rows : \E p \in table : p.market_id = r.market_id

\* C29: market_id is the upper-cased city name without spaces together with
\* the market tier, so two properties share a market_id exactly when they
\* are in the same city and tier; every market_id that appears belongs to
\* at least one property and to exactly one (region, market_tier), so the
\* market lists that generate_competitive_intelligence and
\* generate_market_events select hold each market once.
C29_MarketIdIsCityAndTier ==
    /\ MarketIdFromCityAndTier
    /\ SameMarketIffSameCityAndTier
    /\ CatalogMarketsDistinct
    /\ OneRowPerMarket(CompetitiveMarketRows(GeneratedProperties))
    /\ OneRowPerMarket(EventMarketRows(GeneratedProperties))
    /\ OneRowPerMarket(CompetitiveMarketRows(properties_master_raw))
    /\ OneRowPerMarket(EventMarketRows(properties_master_raw))
    /\ EveryMarketHasProperty(CompetitiveMarketRows(properties_master_raw),
                              properties_master_raw)
    /\ EveryMarketHasProperty(EventMarketRows(properties_master_raw),
                              properties_master_raw)

\* the written table holds two properties of one market and a property of
\* another city in the same tier
C29_Witness ==
    /\ pcP = "done"
    /\ \E p, q, r \in properties_master_raw :
          /\ p # q
          /\ p.market_id = q.market_id
          /\ r.city # p.city
          /\ r.market_tier = p.market_tier
          /\ r.market_id # p.market_id
    /\ Cardinality(CompetitiveMarketRows(properties_master_raw)) = 2
    /\ Cardinality(EventMarketRows(properties_master_raw)) = 2

-----------------------------------------------------------------------------
(* the while loop of generate_properties_master (SpecPropsFair) *)

AllBrandsProfiled == config_brands \subseteq DOMAIN brand_profiles

\* a step that is one iteration of the while loop
LoopIteration ==
    /\ pcP = "loop"
    /\ pcP' = "loop"
    /\ region_idx' = region_idx
    /\ <<properties, properties_created, property_id_counter,
         errors_caught>>' # <<properties, properties_created,
                             property_id_counter, errors_caught>>

IterationAppendsOne ==
    /\ Len(properties') = Len(properties) + 1
    /\ SubSeq(properties', 1, Len(properties)) = properties
    /\ properties_created' = properties_created + 1
    /\ property_id_counter' = property_id_counter + 1
    /\ errors_caught' = errors_caught

RaisingIterationChangesNothing ==
    errors_caught' # errors_caught =>
        /\ properties' = properties
        /\ properties_created' = properties_created
        /\ property_id_counter' = property_id_counter

\* the while loop of a region is left with target_count properties created
\* in target_count iterations
LoopEndsAtTarget ==
    region_idx' # region_idx =>
        /\ properties_created = TargetCount(region_idx)
        /\ AllBrandsProfiled => errors_caught = 0

AllLoopsEnded == pcP # "loop"

\* C30: the per-region while loop of generate_properties_master terminates
\* when every configured brand has a brand profile: each iteration then
\* appends exactly one property and the loop is left after exactly
\* target_count iterations; an iteration that raises appends nothing and
\* advances neither properties_created nor the id sequence.
C30_PropertyLoopTerminates ==
    /\ AllBrandsProfiled => <>AllLoopsEnded
    /\ [][(AllBrandsProfiled /\ LoopIteration) => IterationAppendsOne]_vars
    /\ [][LoopEndsAtTarget]_vars
    /\ [][RaisingIterationChangesNothing]_vars

\* every configured brand has a profile and both regions' loops have ended
\* with their targets met, no iteration having raised
C30_Witness ==
    /\ AllBrandsProfiled
    /\ pcP = "write"
    /\ region_idx = Len(ModelRegions) + 1
    /\ Len(properties) = MaxTarget + 1
    /\ property_id_counter = MaxTarget + 2
    /\ errors_caught = 0

=========================================================================
